---- MODULE Spec2Model ----
(***************************************************************************)
(* Model of the Figma plugin "figma-for-llms".                             *)
(*                                                                         *)
(*   Host    = src/src/canvas.ts (plugin sandbox): extracts the selected   *)
(*             scene nodes and posts them to the UI.                       *)
(*   Surface = src/src/components/DefaultView.tsx (UI iframe): shows the   *)
(*             data as pretty / minified JSON with a token estimate.       *)
(*                                                                         *)
(* Encodings used throughout:                                              *)
(*   - a text is a sequence of one-character strings;                      *)
(*   - a JS object is a TLA+ record, "'f' in o" is  "f" \in DOMAIN o;      *)
(*   - paint opacities and colour channels are fixed-point numbers in      *)
(*     tenths: the value v stands for v/10;                                *)
(*   - a scene-node property whose runtime type the code tests carries a   *)
(*     tag:  [t |-> "number" | "string" | "array" | "symbol", v |-> ...].  *)
(***************************************************************************)
EXTENDS Integers, Sequences, FiniteSets, TLC

(***************************************************************************)
(* Bounds of the model.                                                    *)
(***************************************************************************)
MaxQueue == 2      \* messages in flight per direction
MaxNotices == 1    \* notices on screen at a time
MaxInputs == 2     \* inputs from outside: selection changes, clicks of the
                   \* user, messages that are not of the protocol
MaxEdits == 2      \* edits of the document between extractions
MaxLen == 5        \* length of the texts over Alphabet handed to the estimator
MaxRun == 114      \* length of the runs of commas handed to the estimator

(***************************************************************************)
(* Texts.  JavaScript strings are modelled as sequences of one-character   *)
(* strings; Chars spells the string constants that occur in the program    *)
(* and in the modelled document.                                           *)
(***************************************************************************)
Chars(s) ==
    CASE
         s = "name" -> <<"n", "a", "m", "e">>
      [] s = "type" -> <<"t", "y", "p", "e">>
      [] s = "width" -> <<"w", "i", "d", "t", "h">>
      [] s = "height" -> <<"h", "e", "i", "g", "h", "t">>
      [] s = "layoutMode" -> <<"l", "a", "y", "o", "u", "t", "M", "o", "d", "e">>
      [] s = "primaryAxisSizingMode" -> <<"p", "r", "i", "m", "a", "r", "y", "A", "x", "i", "s", "S", "i", "z", "i", "n", "g", "M", "o", "d", "e">>
      [] s = "counterAxisSizingMode" -> <<"c", "o", "u", "n", "t", "e", "r", "A", "x", "i", "s", "S", "i", "z", "i", "n", "g", "M", "o", "d", "e">>
      [] s = "primaryAxisAlignItems" -> <<"p", "r", "i", "m", "a", "r", "y", "A", "x", "i", "s", "A", "l", "i", "g", "n", "I", "t", "e", "m", "s">>
      [] s = "counterAxisAlignItems" -> <<"c", "o", "u", "n", "t", "e", "r", "A", "x", "i", "s", "A", "l", "i", "g", "n", "I", "t", "e", "m", "s">>
      [] s = "fills" -> <<"f", "i", "l", "l", "s">>
      [] s = "strokes" -> <<"s", "t", "r", "o", "k", "e", "s">>
      [] s = "strokeWeight" -> <<"s", "t", "r", "o", "k", "e", "W", "e", "i", "g", "h", "t">>
      [] s = "strokeAlign" -> <<"s", "t", "r", "o", "k", "e", "A", "l", "i", "g", "n">>
      [] s = "strokeCap" -> <<"s", "t", "r", "o", "k", "e", "C", "a", "p">>
      [] s = "strokeJoin" -> <<"s", "t", "r", "o", "k", "e", "J", "o", "i", "n">>
      [] s = "children" -> <<"c", "h", "i", "l", "d", "r", "e", "n">>
      [] s = "childrenCount" -> <<"c", "h", "i", "l", "d", "r", "e", "n", "C", "o", "u", "n", "t">>
      [] s = "opacity" -> <<"o", "p", "a", "c", "i", "t", "y">>
      [] s = "color" -> <<"c", "o", "l", "o", "r">>
      [] s = "r" -> <<"r">>
      [] s = "g" -> <<"g">>
      [] s = "b" -> <<"b">>
      [] s = "a" -> <<"a">>
      [] s = "hex" -> <<"h", "e", "x">>
      [] s = "message" -> <<"m", "e", "s", "s", "a", "g", "e">>
      [] s = "Select an element(s)" -> <<"S", "e", "l", "e", "c", "t", " ", "a", "n", " ", "e", "l", "e", "m", "e", "n", "t", "(", "s", ")">>
      [] s = "FRAME" -> <<"F", "R", "A", "M", "E">>
      [] s = "GROUP" -> <<"G", "R", "O", "U", "P">>
      [] s = "TEXT" -> <<"T", "E", "X", "T">>
      [] s = "RECTANGLE" -> <<"R", "E", "C", "T", "A", "N", "G", "L", "E">>
      [] s = "SOLID" -> <<"S", "O", "L", "I", "D">>
      [] s = "GRADIENT_LINEAR" -> <<"G", "R", "A", "D", "I", "E", "N", "T", "_", "L", "I", "N", "E", "A", "R">>
      [] s = "A" -> <<"A">>
      [] s = "B" -> <<"B">>
      [] s = "T" -> <<"T">>
      [] s = "R" -> <<"R">>
      [] s = "E" -> <<"E">>
      [] s = "X" -> <<"X">>
      [] s = "F" -> <<"F">>
      [] s = "NONE" -> <<"N", "O", "N", "E">>
      [] s = "HORIZONTAL" -> <<"H", "O", "R", "I", "Z", "O", "N", "T", "A", "L">>
      [] s = "AUTO" -> <<"A", "U", "T", "O">>
      [] s = "FIXED" -> <<"F", "I", "X", "E", "D">>
      [] s = "MIN" -> <<"M", "I", "N">>
      [] s = "CENTER" -> <<"C", "E", "N", "T", "E", "R">>
      [] s = "INSIDE" -> <<"I", "N", "S", "I", "D", "E">>
      [] s = "ROUND" -> <<"R", "O", "U", "N", "D">>
      [] s = "MITER" -> <<"M", "I", "T", "E", "R">>

DigitChars == <<"0", "1", "2", "3", "4", "5", "6", "7", "8", "9">>

HexChars == DigitChars \o <<"a", "b", "c", "d", "e", "f">>

Digit == {DigitChars[i] : i \in 1..10}

\* The characters /\s/ matches, among those the program's texts contain.
Whitespace == {" ", "\n", "\t"}

\* The character class [{}\[\]",:] of calculateTokens.
Special == {"{", "}", "[", "]", "\"", ",", ":"}

\* Number.prototype.toString(radix) of a natural number.
RECURSIVE ToRadix(_, _)
ToRadix(n, radix) ==
    IF n < radix THEN <<HexChars[n + 1]>>
    ELSE ToRadix(n \div radix, radix) \o <<HexChars[(n % radix) + 1]>>

\* String.prototype.padStart(width, "0").
PadStart(text, width) ==
    [i \in 1..(IF Len(text) < width THEN width - Len(text) ELSE 0) |-> "0"] \o text

\* JSON text of an integer-valued number.
IntText(n) == IF n < 0 THEN <<"-">> \o ToRadix(0 - n, 10) ELSE ToRadix(n, 10)

\* JSON text of a fixed-point number given in tenths: 10 -> 1, 5 -> 0.5.
TenthsText(v) ==
    IF v % 10 = 0 THEN IntText(v \div 10)
    ELSE ToRadix(v \div 10, 10) \o <<".">> \o ToRadix(v % 10, 10)

\* JSON text of a string (the program's strings need no escaping).
Quote(text) == <<"\"">> \o text \o <<"\"">>

RECURSIVE JoinWith(_, _)
JoinWith(parts, sep) ==
    IF parts = <<>> THEN <<>>
    ELSE IF Len(parts) = 1 THEN parts[1]
    ELSE parts[1] \o sep \o JoinWith(Tail(parts), sep)

\* JSON.stringify's line break: a newline and 2 spaces per level when an
\* indent is given, nothing otherwise.
Break(pretty, level) ==
    IF pretty THEN <<"\n">> \o [i \in 1..(2 * level) |-> " "] ELSE <<>>

\* JSON text of an object whose members (<<key text, value text>>, in
\* insertion order) are already serialised.
ObjectText(members, pretty, level) ==
    IF members = <<>> THEN <<"{", "}">>
    ELSE <<"{">> \o Break(pretty, level + 1)
         \o JoinWith([i \in 1..Len(members) |->
                         Quote(members[i][1]) \o <<":">>
                         \o (IF pretty THEN <<" ">> ELSE <<>>) \o members[i][2]],
                     <<",">> \o Break(pretty, level + 1))
         \o Break(pretty, level) \o <<"}">>

\* JSON text of an array whose items are already serialised.
ArrayText(items, pretty, level) ==
    IF items = <<>> THEN <<"[", "]">>
    ELSE <<"[">> \o Break(pretty, level + 1)
         \o JoinWith(items, <<",">> \o Break(pretty, level + 1))
         \o Break(pretty, level) \o <<"]">>

(***************************************************************************)
(* calculateTokens (DefaultView.tsx).                                      *)
(***************************************************************************)
\* text.split(/\s+/).filter(word => word.length > 0).length
WordCount(text) ==
    Cardinality({i \in 1..Len(text) :
                    /\ text[i] \notin Whitespace
                    /\ (i = 1 \/ text[i - 1] \in Whitespace)})

\* (text.match(/[{}\[\]",:]/g) || []).length
SpecialCount(text) == Cardinality({i \in 1..Len(text) : text[i] \in Special})

\* Last position of the maximal digit run that starts at position i.
DigitRunEnd(text, i) ==
    CHOOSE j \in i..Len(text) :
        /\ \A k \in i..j : text[k] \in Digit
        /\ (j = Len(text) \/ text[j + 1] \notin Digit)

\* Last position of the match of /\d+(\.\d+)?/ that starts at position i.
NumberMatchEnd(text, i) ==
    LET e == DigitRunEnd(text, i) IN
    IF e + 2 <= Len(text) /\ text[e + 1] = "." /\ text[e + 2] \in Digit
    THEN DigitRunEnd(text, e + 2)
    ELSE e

\* Number of matches of the global regex /\d+(\.\d+)?/g at or after from.
RECURSIVE NumberMatches(_, _)
NumberMatches(text, from) ==
    LET starts == {i \in from..Len(text) : text[i] \in Digit} IN
    IF starts = {} THEN 0
    ELSE LET s == CHOOSE i \in starts : \A k \in starts : i <= k
         IN  1 + NumberMatches(text, NumberMatchEnd(text, s) + 1)

\* (text.match(/\d+(\.\d+)?/g) || []).length
NumberCount(text) == NumberMatches(text, 1)

(***************************************************************************)
(* The document: figma's scene graph, owned by the application.            *)
(* Scene maps a node id to the node object; `children` lists node ids.     *)
(* Properties the code type-tests (fills, strokes, strokeWeight, ...)      *)
(* carry their runtime type; figma.mixed is the "symbol" value.            *)
(***************************************************************************)
Mixed == [t |-> "symbol"]

Solid(color) == [type |-> "SOLID", color |-> color]

Scene ==
    <<  \* 1: a frame with two children, one of them a container
        [name |-> "A", type |-> "FRAME", width |-> 8,
         children |-> <<2, 3>>],
        \* 2: a group with one child
        [name |-> "B", type |-> "GROUP", children |-> <<4>>],
        \* 3: a text node with a solid fill and a mixed stroke weight
        [name |-> "T", type |-> "TEXT",
         fills |-> [t |-> "array",
                    v |-> <<Solid([r |-> 10, g |-> 0, b |-> 0])>>],
         strokeWeight |-> Mixed],
        \* 4: a rectangle with a gradient fill and a stroke weight
        [name |-> "R", type |-> "RECTANGLE",
         fills |-> [t |-> "array",
                    v |-> <<[type |-> "GRADIENT_LINEAR", opacity |-> 5]>>],
         strokeWeight |-> [t |-> "number", v |-> 1]],
        \* 5: a frame without children
        [name |-> "E", type |-> "FRAME", children |-> <<>>],
        \* 6: a node whose property reads raise
        [name |-> "X", type |-> "FRAME", children |-> <<>>],
        \* 7: a frame that contains node 6
        [name |-> "F", type |-> "FRAME", children |-> <<6>>]
    >>

NodeIds == DOMAIN Scene

\* Node objects on which reading a property raises an exception, the
\* failure the try/catch of sendSelectionToUI is there for.
Raising == {6}

\* The selections the user can make (figma.currentPage.selection).
Selections == {<<>>, <<1>>, <<3, 5>>, <<6>>, <<5, 7>>}

\* node with property field set to value.
SetProperty(node, field, value) ==
    [f \in DOMAIN node \cup {field} |-> IF f = field THEN value ELSE node[f]]

\* The edits the user can make to the properties of the document's nodes.
\* x is a property extractNodeData does not read.
Edits ==
    {[id |-> 1, field |-> "name", value |-> "Z"],
     [id |-> 1, field |-> "x", value |-> 1],
     [id |-> 2, field |-> "x", value |-> 1],
     [id |-> 1, field |-> "height", value |-> 4],
     [id |-> 5, field |-> "layoutMode", value |-> "VERTICAL"],
     [id |-> 5, field |-> "primaryAxisSizingMode", value |-> "AUTO"],
     [id |-> 5, field |-> "counterAxisSizingMode", value |-> "FIXED"],
     [id |-> 5, field |-> "primaryAxisAlignItems", value |-> "MIN"],
     [id |-> 5, field |-> "counterAxisAlignItems", value |-> "CENTER"],
     [id |-> 3, field |-> "strokeWeight", value |-> [t |-> "number", v |-> 2]],
     [id |-> 4, field |-> "strokeWeight", value |-> Mixed],
     [id |-> 4, field |-> "strokeAlign", value |-> [t |-> "string", v |-> "INSIDE"]],
     [id |-> 4, field |-> "strokeCap", value |-> Mixed],
     [id |-> 4, field |-> "strokeCap", value |-> [t |-> "string", v |-> "ROUND"]],
     [id |-> 4, field |-> "strokeJoin", value |-> [t |-> "string", v |-> "MITER"]],
     [id |-> 3, field |-> "fills", value |-> Mixed],
     [id |-> 4, field |-> "fills",
      value |-> [t |-> "array",
                 v |-> <<[type |-> "IMAGE", opacity |-> 3],
                         Solid([r |-> 0, g |-> 5, b |-> 10])>>]],
     [id |-> 3, field |-> "strokes", value |-> [t |-> "array", v |-> <<>>]],
     [id |-> 2, field |-> "strokes",
      value |-> [t |-> "array",
                 v |-> <<[type |-> "GRADIENT_RADIAL"],
                         Solid([r |-> 10, g |-> 10, b |-> 10, a |-> 5])
                             @@ [opacity |-> 5]>>]]}

\* No call of extractNodeData yet.
NoExtraction == [id |-> 0]

\* No argument chosen and no call of a pure function yet.
NoArgument == [kind |-> "none"]

NoResult == [kind |-> "none"]

(***************************************************************************)
(* canvas.ts: the Node Tree Extraction Engine.                             *)
(***************************************************************************)
\* Math.round(channel * 255) for a channel given in tenths; the product
\* k * 25.5 is exact in binary floating point, ties round up.
RoundChannel(k) == (k * 255 * 2 + 10) \div 20

\* Mutant: the padding to two digits is missing.
ChannelHexUnpadded(k) == ToRadix(RoundChannel(k), 16)

ChannelHex(k) == PadStart(ToRadix(RoundChannel(k), 16), 2)

\* Mutant: the alpha of the input is ignored.
extractColorOpaque(color) ==
    [r |-> color.r, g |-> color.g, b |-> color.b, a |-> 10,
     hex |-> <<"#">> \o ChannelHex(color.r) \o ChannelHex(color.g)
                     \o ChannelHex(color.b)]

extractColor(color) ==
    [r |-> color.r, g |-> color.g, b |-> color.b,
     a |-> IF "a" \in DOMAIN color THEN color.a ELSE 10,
     hex |-> <<"#">> \o ChannelHex(color.r) \o ChannelHex(color.g)
                     \o ChannelHex(color.b)]

\* Mutant: a paint without opacity gets opacity 0.
extractPaintTransparent(paint) ==
    LET paintData == [type |-> paint.type,
                      opacity |-> IF "opacity" \in DOMAIN paint
                                  THEN paint.opacity ELSE 0]
    IN  IF paint.type = "SOLID" /\ "color" \in DOMAIN paint
        THEN paintData @@ [color |-> extractColor(paint.color)]
        ELSE paintData

\* Mutant: the colour of a solid paint is not extracted.
extractPaintColourless(paint) ==
    [type |-> paint.type,
     opacity |-> IF "opacity" \in DOMAIN paint THEN paint.opacity ELSE 10]

extractPaint(paint) ==
    LET paintData == [type |-> paint.type,
                      opacity |-> IF "opacity" \in DOMAIN paint
                                  THEN paint.opacity ELSE 10]
    IN  IF paint.type = "SOLID" /\ "color" \in DOMAIN paint
        THEN paintData @@ [color |-> extractColor(paint.color)]
        ELSE paintData

extractPaints(paints) == [i \in 1..Len(paints) |-> extractPaint(paints[i])]

\* The properties copied whenever the node has them.
PlainFields == {"width", "height", "layoutMode", "primaryAxisSizingMode",
                "counterAxisSizingMode", "primaryAxisAlignItems",
                "counterAxisAlignItems"}

\* The properties copied only when their runtime type is the expected one.
TypedFields == [fills |-> "array", strokes |-> "array",
                strokeWeight |-> "number", strokeAlign |-> "string",
                strokeCap |-> "string", strokeJoin |-> "string"]

PaintFields == {"fills", "strokes"}

\* Mutant: strokeWeight is copied without the typeof test.
ownDataUntypedWeight(node) ==
    LET plain == {f \in PlainFields : f \in DOMAIN node}
        typed == {f \in DOMAIN TypedFields :
                     f \in DOMAIN node /\ node[f].t = TypedFields[f]}
        loose == {f \in {"strokeWeight"} : f \in DOMAIN node}
    IN  [f \in {"name", "type"} \cup plain \cup typed \cup loose |->
            IF f \in PaintFields THEN extractPaints(node[f].v)
            ELSE IF f \in typed THEN node[f].v
            ELSE node[f]]

\* extractNodeData's record without the children part.
ownData(node) ==
    LET plain == {f \in PlainFields : f \in DOMAIN node}
        typed == {f \in DOMAIN TypedFields :
                     f \in DOMAIN node /\ node[f].t = TypedFields[f]}
    IN  [f \in {"name", "type"} \cup plain \cup typed |->
            IF f \in PaintFields THEN extractPaints(node[f].v)
            ELSE IF f \in typed THEN node[f].v
            ELSE node[f]]

RECURSIVE extractNodeDataIn(_, _, _)

\* Mutant: a container's record always carries the count of its children.
extractNodeDataCounting(doc, id, expandContent) ==
    LET node == doc[id] IN
    IF "children" \in DOMAIN node
    THEN IF expandContent
         THEN ownData(node) @@
              [children |-> [i \in 1..Len(node.children) |->
                                extractNodeDataIn(doc, node.children[i],
                                                  expandContent)],
               childrenCount |-> Len(node.children)]
         ELSE ownData(node) @@ [childrenCount |-> Len(node.children)]
    ELSE ownData(node)

\* Mutant: the children are extracted without the expand flag.
extractNodeDataOneLevel(doc, id, expandContent) ==
    LET node == doc[id] IN
    IF "children" \in DOMAIN node
    THEN IF expandContent
         THEN ownData(node) @@
              [children |-> [i \in 1..Len(node.children) |->
                                extractNodeDataIn(doc, node.children[i], FALSE)]]
         ELSE ownData(node) @@ [childrenCount |-> Len(node.children)]
    ELSE ownData(node)

\* Mutant: the children are extracted whatever the flag.
extractNodeDataExpanding(doc, id, expandContent) ==
    LET node == doc[id] IN
    IF "children" \in DOMAIN node
    THEN ownData(node) @@
         [children |-> [i \in 1..Len(node.children) |->
                           extractNodeDataIn(doc, node.children[i],
                                             expandContent)]]
    ELSE ownData(node)

\* Mutant: the record carries the id of its node.
extractNodeDataWithId(doc, id, expandContent) ==
    LET node == doc[id] IN
    [id |-> id] @@
    (IF "children" \in DOMAIN node
     THEN IF expandContent
          THEN ownData(node) @@
               [children |-> [i \in 1..Len(node.children) |->
                                 extractNodeDataIn(doc, node.children[i],
                                                   expandContent)]]
          ELSE ownData(node) @@ [childrenCount |-> Len(node.children)]
     ELSE ownData(node))

\* extractNodeData(node, expandContent), node being the node id of document
\* doc.
extractNodeDataIn(doc, id, expandContent) ==
    LET node == doc[id] IN
    IF "children" \in DOMAIN node
    THEN IF expandContent
         THEN ownData(node) @@
              [children |-> [i \in 1..Len(node.children) |->
                                extractNodeDataIn(doc, node.children[i],
                                                  expandContent)]]
         ELSE ownData(node) @@ [childrenCount |-> Len(node.children)]
    ELSE ownData(node)

\* Whether extractNodeData(node, expandContent) raises: it reads the node's
\* properties, and those of every descendant when expanding.
RECURSIVE extractionThrowsIn(_, _, _)
extractionThrowsIn(doc, id, expandContent) ==
    \/ id \in Raising
    \/ /\ expandContent
       /\ "children" \in DOMAIN doc[id]
       /\ \E i \in 1..Len(doc[id].children) :
             extractionThrowsIn(doc, doc[id].children[i], expandContent)

\* The plugin's extractions, on the document as the user selects from it.
extractNodeData(id, expandContent) == extractNodeDataIn(Scene, id, expandContent)

extractionThrows(id, expandContent) ==
    extractionThrowsIn(Scene, id, expandContent)

(***************************************************************************)
(* JSON.stringify of the extracted data.  Object members appear in the     *)
(* order in which extractNodeData, extractPaints and extractColor assign   *)
(* them.                                                                   *)
(***************************************************************************)
NodeFieldOrder ==
    <<"name", "type", "width", "height", "layoutMode", "primaryAxisSizingMode",
      "counterAxisSizingMode", "primaryAxisAlignItems", "counterAxisAlignItems",
      "fills", "strokes", "strokeWeight", "strokeAlign", "strokeCap",
      "strokeJoin", "children", "childrenCount">>

NumberFields == {"width", "height", "strokeWeight", "childrenCount"}

Present(order, obj) == SelectSeq(order, LAMBDA f : f \in DOMAIN obj)

ColorText(color, pretty, level) ==
    ObjectText(<< <<Chars("r"), TenthsText(color.r)>>,
                  <<Chars("g"), TenthsText(color.g)>>,
                  <<Chars("b"), TenthsText(color.b)>>,
                  <<Chars("a"), TenthsText(color.a)>>,
                  <<Chars("hex"), Quote(color.hex)>> >>, pretty, level)

PaintText(paint, pretty, level) ==
    ObjectText(<< <<Chars("type"), Quote(Chars(paint.type))>>,
                  <<Chars("opacity"), TenthsText(paint.opacity)>> >>
               \o (IF "color" \in DOMAIN paint
                   THEN << <<Chars("color"),
                             ColorText(paint.color, pretty, level + 1)>> >>
                   ELSE <<>>),
               pretty, level)

RECURSIVE NodeText(_, _, _)
NodeText(data, pretty, level) ==
    LET fields == Present(NodeFieldOrder, data)
        value(f) ==
            IF f \in PaintFields
            THEN ArrayText([i \in 1..Len(data[f]) |->
                               PaintText(data[f][i], pretty, level + 2)],
                           pretty, level + 1)
            ELSE IF f = "children"
            THEN ArrayText([i \in 1..Len(data[f]) |->
                               NodeText(data[f][i], pretty, level + 2)],
                           pretty, level + 1)
            ELSE IF f \in NumberFields THEN IntText(data[f])
            ELSE Quote(Chars(data[f]))
    IN  ObjectText([i \in 1..Len(fields) |-> <<Chars(fields[i]), value(fields[i])>>],
                   pretty, level)

\* Mutant: a single item is shown as a sequence of one.
StringifyWrapped(items, pretty) ==
    ArrayText([i \in 1..Len(items) |-> NodeText(items[i], pretty, 1)], pretty, 0)

\* JSON.stringify(dataToShow, null, 2) and JSON.stringify(dataToShow), where
\* dataToShow is the only item of a one-element array, or the array itself.
Stringify(items, pretty) ==
    IF Len(items) = 1 THEN NodeText(items[1], pretty, 0)
    ELSE ArrayText([i \in 1..Len(items) |-> NodeText(items[i], pretty, 1)],
                   pretty, 0)

\* JSON.stringify of the placeholder {message: "Select an element(s)"}.
PlaceholderText(pretty) ==
    ObjectText(<< <<Chars("message"), Quote(Chars("Select an element(s)"))>> >>,
               pretty, 0)

(***************************************************************************)
(* JavaScript numbers: IEEE 754 binary64, round to nearest, ties to even.  *)
(* A non-negative value is written as its numerator over 2^54 (the values  *)
(* the estimator computes are all multiples of 2^-54), in 5 digits of 15   *)
(* bits, least significant first.                                          *)
(***************************************************************************)
\* The digits of the number whose digits are the numbers raw, each of which
\* may exceed 15 bits.
Carried(raw) ==
    LET d1 == raw[1]
        d2 == raw[2] + (d1 \div 32768)
        d3 == raw[3] + (d2 \div 32768)
        d4 == raw[4] + (d3 \div 32768)
        d5 == raw[5] + (d4 \div 32768)
    IN  <<d1 % 32768, d2 % 32768, d3 % 32768, d4 % 32768, d5>>

\* The exact sum of two values.
Plus(x, y) == Carried([j \in 1..5 |-> x[j] + y[j]])

\* The exact product of the natural number k < 2^16 and the value x.
Times(k, x) == Carried([j \in 1..5 |-> k * x[j]])

\* The number of binary digits of a natural number.
RECURSIVE BitLength(_)
BitLength(v) == IF v = 0 THEN 0 ELSE 1 + BitLength(v \div 2)

SignificantBits(x) ==
    IF x[5] # 0 THEN 60 + BitLength(x[5])
    ELSE IF x[4] # 0 THEN 45 + BitLength(x[4])
    ELSE IF x[3] # 0 THEN 30 + BitLength(x[3])
    ELSE IF x[2] # 0 THEN 15 + BitLength(x[2])
    ELSE BitLength(x[1])

\* The binary digit of weight 2^i of x, and whether all digits below it
\* are zero.
BitOf(x, i) == (x[(i \div 15) + 1] \div (2 ^ (i % 15))) % 2

ZeroBelow(x, i) ==
    /\ \A j \in 1..(i \div 15) : x[j] = 0
    /\ x[(i \div 15) + 1] % (2 ^ (i % 15)) = 0

\* v with its d lowest binary digits dropped, rounded to the nearest, a tie
\* to the even one, and written with d zeros in their place.
RoundedAt(v, d) ==
    LET kept == [j \in 1..5 |->
                    IF j <= d \div 15 THEN 0
                    ELSE IF j = (d \div 15) + 1
                    THEN v[j] - (v[j] % (2 ^ (d % 15)))
                    ELSE v[j]]
        up == /\ BitOf(v, d - 1) = 1
              /\ (~ZeroBelow(v, d - 1) \/ BitOf(v, d) = 1)
    IN  IF up
        THEN Carried([j \in 1..5 |->
                        IF j = (d \div 15) + 1
                        THEN kept[j] + (2 ^ (d % 15)) ELSE kept[j]])
        ELSE kept

\* The binary64 number nearest to the value x: 53 significant bits, ties to
\* the even one.
RoundToDouble(x) ==
    IF SignificantBits(x) <= 53 THEN x
    ELSE RoundedAt(x, SignificantBits(x) - 53)

\* The literal 1.3: 0x14CCCCCCCCCCCD * 2^-52.
Double13 == <<13108, 26214, 19660, 665, 0>>

\* The literal 0.3: 0x13333333333333 * 2^-54.
Double03 == <<13107, 26214, 19660, 153, 0>>

\* The literal 0.5: 2^53 * 2^-54.
Double05 == <<0, 0, 0, 256, 0>>

\* Math.round(x): the integer nearest to x, a tie going up.
MathRound(x) ==
    LET y == Plus(x, Double05) IN (y[4] \div 512) + 64 * y[5]

\* k * c, the product of the number k and the literal c.
DoubleTimes(k, c) == RoundToDouble(Times(k, c))

DoublePlus(x, y) == RoundToDouble(Plus(x, y))

\* Mutant: the weights of the words and of the special characters swapped.
RoundWeightedSwapped(wordCount, specialChars, numbers) ==
    MathRound(DoublePlus(DoublePlus(DoubleTimes(wordCount, Double03),
                                    DoubleTimes(specialChars, Double13)),
                         DoubleTimes(numbers, Double05)))

\* Math.round(wordCount * 1.3 + specialChars * 0.3 + numbers * 0.5).
RoundWeighted(wordCount, specialChars, numbers) ==
    MathRound(DoublePlus(DoublePlus(DoubleTimes(wordCount, Double13),
                                    DoubleTimes(specialChars, Double03)),
                         DoubleTimes(numbers, Double05)))

\* Mutant: the floor of 1 is missing.
calculateTokensUnfloored(text) ==
    IF text = <<>> THEN 0
    ELSE RoundWeighted(WordCount(text), SpecialCount(text), NumberCount(text))

calculateTokens(text) ==
    IF text = <<>> THEN 0
    ELSE LET n == RoundWeighted(WordCount(text), SpecialCount(text),
                                NumberCount(text))
         IN  IF n < 1 THEN 1 ELSE n

(***************************************************************************)
(* Messages.  A message is the record the sender posts; a field the        *)
(* sender left out is absent from the record.                              *)
(***************************************************************************)
InitMsg == [type |-> "init"]

ToggleExpandMsg(expandContent) ==
    [type |-> "toggleExpand", expandContent |-> expandContent]

NotifyMsg(message) == [type |-> "notify", message |-> message]

SelectionChangeMsg(data) == [type |-> "selectionChange", data |-> data]

ErrorMsg == [type |-> "error", message |-> "Failed to process selection data"]

\* The values of a selectionChange's data, and of the Surface's selectionData.
Null == [kind |-> "null"]

Undefined == [kind |-> "undefined"]

ArrayOf(items) == [kind |-> "array", items |-> items]

\* JavaScript truthiness of a selectionData value (an array is truthy).
Truthy(data) == data.kind = "array"

\* Messages that reach the Host's handler from outside the protocol: a
\* toggleExpand without its expandContent field and an unknown type.
ForeignToHost == {[type |-> "toggleExpand"], [type |-> "resize"]}

\* Events that reach the Surface's window.onmessage from outside the
\* protocol: an event without pluginMessage, an unknown type, and a
\* selectionChange without its data field.
ForeignToSurface ==
    {[origin |-> "other"], [type |-> "resize"], [type |-> "selectionChange"]}

(***************************************************************************)
(* State.                                                                  *)
(***************************************************************************)
VARIABLES
    \* Host (canvas.ts) and the application around it
    hostStarted,         \* the plugin's main script has run
    selection,           \* figma.currentPage.selection
    notices,             \* notices on screen, shown by figma.notify
    \* transport
    toSurface,           \* figma.ui.postMessage, in flight to the Surface
    toHost,              \* parent.postMessage, in flight to the Host
    \* Surface (DefaultView.tsx): the component's state
    mounted,             \* the component has mounted (its effects have run)
    selectionData,
    includeChildren,
    activeTab,
    copied,
    prettyJson,
    minifiedJson,
    prettyTokenCount,
    minifiedTokenCount,
    clipboard,           \* the text last copied
    \* history, for stating properties
    hostTurn,            \* the Host's last event turn and what it posted
    hostFailed,          \* some extraction has raised so far
    lastToggle,          \* expandContent of the toggleExpand handled last
    surfaceTurn,         \* the Surface's last message, what it posted and
                         \* whether it changed the component's state
    lastData,            \* data of the selectionChange handled last
    outbound,            \* what the Surface has posted so far: the type of
                         \* its first message and the number of its inits
    \* environment
    inputs,              \* inputs from outside so far (see MaxInputs)
    \* the extraction engine on a document under edit
    document,            \* the scene graph: node id -> node object
    target,              \* the node handed to extractNodeData
    expand,              \* the expandContent handed to extractNodeData
    extraction,          \* the last call of extractNodeData and its result
    previous,            \* the call before it
    edits,               \* edits of the document so far (see MaxEdits)
    \* the pure functions called on their own
    argument,            \* the color or the text handed to the function
    returned             \* the call made and what it returned

hostVars == <<hostStarted, selection, notices>>

uiVars == <<mounted, selectionData, includeChildren, activeTab, copied,
            prettyJson, minifiedJson, prettyTokenCount, minifiedTokenCount,
            clipboard>>

historyVars == <<hostTurn, hostFailed, lastToggle, surfaceTurn>>

surfaceHistory == <<lastData, outbound>>

pluginVars == <<hostVars, toSurface, toHost, uiVars, historyVars,
                surfaceHistory, inputs>>

extractVars == <<document, target, expand, extraction, previous, edits>>

callVars == <<argument, returned>>

vars == <<pluginVars, extractVars, callVars>>

\* What the Surface displays.
display == <<selectionData, prettyJson, minifiedJson, prettyTokenCount,
             minifiedTokenCount>>

\* One more input from outside, within the bound.
Input == inputs < MaxInputs /\ inputs' = inputs + 1

(***************************************************************************)
(* Host: canvas.ts.                                                        *)
(***************************************************************************)
\* selection.map(node => extractNodeData(node, expandContent))
selectionMap(sel, expandContent) ==
    [i \in 1..Len(sel) |-> extractNodeData(sel[i], expandContent)]

selectionThrows(sel, expandContent) ==
    \E i \in 1..Len(sel) : extractionThrows(sel[i], expandContent)

\* Mutant: a failed extraction still posts the nodes that did extract.
sendSelectionToUIPartial(sel, expandContent) ==
    IF Len(sel) = 0 THEN <<SelectionChangeMsg(Null)>>
    ELSE IF selectionThrows(sel, expandContent)
    THEN LET good == SelectSeq(sel, LAMBDA id : ~extractionThrows(id, expandContent))
         IN  <<SelectionChangeMsg(ArrayOf(selectionMap(good, expandContent))),
               ErrorMsg>>
    ELSE <<SelectionChangeMsg(ArrayOf(selectionMap(sel, expandContent)))>>

\* Mutant: the empty selection is mapped like any other.
sendSelectionToUIUnguarded(sel, expandContent) ==
    IF selectionThrows(sel, expandContent) THEN <<ErrorMsg>>
    ELSE <<SelectionChangeMsg(ArrayOf(selectionMap(sel, expandContent)))>>

\* sendSelectionToUI(expandContent): the messages it posts to the UI.
sendSelectionToUI(sel, expandContent) ==
    IF Len(sel) = 0 THEN <<SelectionChangeMsg(Null)>>
    ELSE IF selectionThrows(sel, expandContent) THEN <<ErrorMsg>>
    ELSE <<SelectionChangeMsg(ArrayOf(selectionMap(sel, expandContent)))>>

\* Mutant: the toggleExpand branch always expands.
toggleArgumentExpanding(msg) == TRUE

\* The argument sendSelectionToUI receives from the toggleExpand branch;
\* an absent expandContent is undefined, which the default parameter
\* (expandContent = false) replaces.
toggleArgument(msg) ==
    IF "expandContent" \in DOMAIN msg THEN msg.expandContent ELSE FALSE

\* Mutant: the init branch does not expand.
hostOnMessageInitCollapsed(msg, sel) ==
    IF msg.type = "toggleExpand"
    THEN [posts |-> sendSelectionToUI(sel, toggleArgument(msg)), notify |-> <<>>]
    ELSE IF msg.type = "notify"
    THEN [posts |-> <<>>, notify |-> <<msg.message>>]
    ELSE IF msg.type = "init"
    THEN [posts |-> sendSelectionToUI(sel, FALSE), notify |-> <<>>]
    ELSE [posts |-> <<>>, notify |-> <<>>]

\* Mutant: a notify is also answered by a push of the selection.
hostOnMessageNotifyPushing(msg, sel) ==
    IF msg.type = "toggleExpand"
    THEN [posts |-> sendSelectionToUI(sel, toggleArgument(msg)), notify |-> <<>>]
    ELSE IF msg.type = "notify"
    THEN [posts |-> sendSelectionToUI(sel, FALSE), notify |-> <<msg.message>>]
    ELSE IF msg.type = "init"
    THEN [posts |-> sendSelectionToUI(sel, TRUE), notify |-> <<>>]
    ELSE [posts |-> <<>>, notify |-> <<>>]

\* figma.ui.onmessage: what the handler posts and what it notifies.
hostOnMessage(msg, sel) ==
    IF msg.type = "toggleExpand"
    THEN [posts |-> sendSelectionToUI(sel, toggleArgument(msg)), notify |-> <<>>]
    ELSE IF msg.type = "notify"
    THEN [posts |-> <<>>, notify |-> <<msg.message>>]
    ELSE IF msg.type = "init"
    THEN [posts |-> sendSelectionToUI(sel, TRUE), notify |-> <<>>]
    ELSE [posts |-> <<>>, notify |-> <<>>]

\* Mutant: the startup call does not expand.
startupCollapsed == FALSE

\* The flag of the startup call, sendSelectionToUI(true).
startupExpand == TRUE

\* Mutant: the selectionchange listener expands.
selectionChangeExpanding == TRUE

\* The flag of the selectionchange listener, sendSelectionToUI(false).
selectionChangeExpand == FALSE

Turn(event, msg, sel, posts) ==
    [event |-> event, msg |-> msg, sel |-> sel, posts |-> posts]

NoMsg == [type |-> "none"]

Failed(posts) == \E i \in 1..Len(posts) : posts[i].type = "error"

\* The plugin's main script: showUI, register the handlers, first push.
HostStartup ==
    /\ UNCHANGED <<extractVars, callVars>>
    /\ ~hostStarted
    /\ hostStarted' = TRUE
    /\ LET posts == sendSelectionToUI(selection, startupExpand) IN
       /\ Len(toSurface) + Len(posts) <= MaxQueue
       /\ toSurface' = toSurface \o posts
       /\ hostTurn' = Turn("startup", NoMsg, selection, posts)
       /\ hostFailed' = (hostFailed \/ Failed(posts))
    /\ UNCHANGED <<selection, notices, toHost, uiVars, lastToggle, surfaceTurn,
                   surfaceHistory, inputs>>

\* The user changes the selection; figma fires 'selectionchange'.
HostSelectionChange(sel) ==
    /\ UNCHANGED <<extractVars, callVars>>
    /\ hostStarted
    /\ sel # selection
    /\ Input
    /\ selection' = sel
    /\ LET posts == sendSelectionToUI(sel, selectionChangeExpand) IN
       /\ Len(toSurface) + Len(posts) <= MaxQueue
       /\ toSurface' = toSurface \o posts
       /\ hostTurn' = Turn("selectionchange", NoMsg, sel, posts)
       /\ hostFailed' = (hostFailed \/ Failed(posts))
    /\ UNCHANGED <<hostStarted, notices, toHost, uiVars, lastToggle, surfaceTurn,
                   surfaceHistory>>

\* The Host's handler runs on msg.
HostHandle(msg) ==
    LET out == hostOnMessage(msg, selection) IN
    /\ Len(toSurface) + Len(out.posts) <= MaxQueue
    /\ Len(notices) + Len(out.notify) <= MaxNotices
    /\ toSurface' = toSurface \o out.posts
    /\ notices' = notices \o out.notify
    /\ hostTurn' = Turn("message", msg, selection, out.posts)
    /\ hostFailed' = (hostFailed \/ Failed(out.posts))
    /\ lastToggle' = IF msg.type = "toggleExpand"
                     THEN <<toggleArgument(msg)>> ELSE lastToggle
    /\ UNCHANGED <<hostStarted, selection, uiVars, surfaceTurn, surfaceHistory>>

\* The Host receives the next message of the Surface.
HostReceive ==
    /\ UNCHANGED <<extractVars, callVars>>
    /\ hostStarted
    /\ toHost # <<>>
    /\ toHost' = Tail(toHost)
    /\ HostHandle(Head(toHost))
    /\ UNCHANGED inputs

\* The Host receives a message that is not of the protocol.
HostReceiveForeign ==
    /\ UNCHANGED <<extractVars, callVars>>
    /\ hostStarted
    /\ Input
    /\ \E msg \in ForeignToHost : HostHandle(msg)
    /\ UNCHANGED toHost

\* A notice leaves the screen after its display time.
NoticeExpires ==
    /\ UNCHANGED <<extractVars, callVars>>
    /\ notices # <<>>
    /\ notices' = Tail(notices)
    /\ UNCHANGED <<hostStarted, selection, toSurface, toHost, uiVars, historyVars,
                   surfaceHistory, inputs>>

(***************************************************************************)
(* Surface: DefaultView.tsx.                                               *)
(***************************************************************************)
Tabs == {"pretty", "minified"}

CopiedNotice == "Copied to clipboard!"

\* Mutant: values of the same kind count as the same value.
SameValueByKind(old, new) == old.kind = new.kind

\* Object.is on selectionData values: arrays arrive as fresh objects, so an
\* array never equals the previous value.
SameValue(old, new) == old.kind = new.kind /\ new.kind # "array"

\* Mutant: the placeholder effect is missing.
effectTextsNoPlaceholder(data) ==
    IF Truthy(data)
    THEN LET pretty == Stringify(data.items, TRUE)
             minified == Stringify(data.items, FALSE)
         IN  [prettyJson |-> pretty, minifiedJson |-> minified,
              prettyTokenCount |-> calculateTokens(pretty),
              minifiedTokenCount |-> calculateTokens(minified)]
    ELSE [prettyJson |-> <<>>, minifiedJson |-> <<>>,
          prettyTokenCount |-> 0, minifiedTokenCount |-> 0]

\* The state the effects that depend on selectionData leave behind: the
\* stringify effect, then the placeholder effect.
effectTexts(data) ==
    IF Truthy(data)
    THEN LET pretty == Stringify(data.items, TRUE)
             minified == Stringify(data.items, FALSE)
         IN  [prettyJson |-> pretty, minifiedJson |-> minified,
              prettyTokenCount |-> calculateTokens(pretty),
              minifiedTokenCount |-> calculateTokens(minified)]
    ELSE [prettyJson |-> PlaceholderText(TRUE),
          minifiedJson |-> PlaceholderText(FALSE),
          prettyTokenCount |-> 0, minifiedTokenCount |-> 0]

\* effectTexts on the payloads the Host can post for this document,
\* computed once.
HostPayloads ==
    {selectionMap(sel, expandContent) :
        <<sel, expandContent>> \in
            {p \in Selections \X BOOLEAN :
                Len(p[1]) > 0 /\ ~selectionThrows(p[1], p[2])}}

effectTextsOfPayload ==
    [items \in HostPayloads |-> effectTexts(ArrayOf(items))]

renderedTexts(data) ==
    IF Truthy(data) /\ data.items \in HostPayloads
    THEN effectTextsOfPayload[data.items]
    ELSE effectTexts(data)

\* Mutant: the effect posts whatever the selection data is.
toggleEffectUnguarded(data, include) == <<ToggleExpandMsg(include)>>

\* The effect on [includeChildren, selectionData]: what it posts.
toggleEffect(data, include) ==
    IF Truthy(data) THEN <<ToggleExpandMsg(include)>> ELSE <<>>

\* The component state the message handler and the effects read and write.
UiState(data, include, texts) ==
    [selectionData |-> data, includeChildren |-> include, texts |-> texts]

\* Mutant: every new value also flips the include-children preference.
setSelectionDataFlipping(ui, data) ==
    IF SameValue(ui.selectionData, data)
    THEN [ui |-> ui, posts |-> <<>>]
    ELSE [ui |-> UiState(data, ~ui.includeChildren, renderedTexts(data)),
          posts |-> toggleEffect(data, ~ui.includeChildren)]

\* setSelectionData(data) and the render that follows it.
setSelectionData(ui, data) ==
    IF SameValue(ui.selectionData, data)
    THEN [ui |-> ui, posts |-> <<>>]
    ELSE [ui |-> UiState(data, ui.includeChildren, renderedTexts(data)),
          posts |-> toggleEffect(data, ui.includeChildren)]

\* Mutant: an error message clears the selection data.
surfaceOnMessageClearing(ui, message) ==
    IF "type" \in DOMAIN message /\ message.type = "selectionChange"
    THEN setSelectionData(ui, IF "data" \in DOMAIN message
                              THEN message.data ELSE Undefined)
    ELSE IF "type" \in DOMAIN message /\ message.type = "error"
    THEN setSelectionData(ui, Null)
    ELSE [ui |-> ui, posts |-> <<>>]

\* window.onmessage: message is event.data.pluginMessage.
surfaceOnMessage(ui, message) ==
    IF "type" \in DOMAIN message /\ message.type = "selectionChange"
    THEN setSelectionData(ui, IF "data" \in DOMAIN message
                              THEN message.data ELSE Undefined)
    ELSE [ui |-> ui, posts |-> <<>>]

currentTexts ==
    [prettyJson |-> prettyJson, minifiedJson |-> minifiedJson,
     prettyTokenCount |-> prettyTokenCount,
     minifiedTokenCount |-> minifiedTokenCount]

currentUi == UiState(selectionData, includeChildren, currentTexts)

\* The record of the Surface's posts, after it posted posts.
Sent(posts) ==
    [first |-> IF outbound.first = "none" /\ posts # <<>>
               THEN posts[1].type ELSE outbound.first,
     inits |-> outbound.inits
                 + Cardinality({i \in 1..Len(posts) : posts[i].type = "init"})]

\* The component mounts: its effects run, the handler is installed and the
\* init request is posted.
SurfaceMount ==
    /\ UNCHANGED <<extractVars, callVars>>
    /\ hostStarted
    /\ ~mounted
    /\ Len(toHost) < MaxQueue
    /\ mounted' = TRUE
    /\ \E texts \in {renderedTexts(selectionData)} :
       /\ prettyJson' = texts.prettyJson
       /\ minifiedJson' = texts.minifiedJson
       /\ prettyTokenCount' = texts.prettyTokenCount
       /\ minifiedTokenCount' = texts.minifiedTokenCount
    /\ LET posts == <<InitMsg>> \o toggleEffect(selectionData, includeChildren) IN
       /\ toHost' = toHost \o posts
       /\ outbound' = Sent(posts)
    /\ UNCHANGED <<hostVars, toSurface, selectionData, includeChildren,
                   activeTab, copied, clipboard, historyVars, lastData, inputs>>

\* A message arrives before the handler is installed and is lost.
SurfaceMiss ==
    /\ UNCHANGED <<extractVars, callVars>>
    /\ ~mounted
    /\ toSurface # <<>>
    /\ toSurface' = Tail(toSurface)
    /\ UNCHANGED <<hostVars, toHost, uiVars, historyVars, surfaceHistory, inputs>>

\* The Surface's handler runs on message.
SurfaceHandle(message) ==
    \E out \in {surfaceOnMessage(currentUi, message)} :
    /\ Len(toHost) + Len(out.posts) <= MaxQueue
    /\ selectionData' = out.ui.selectionData
    /\ prettyJson' = out.ui.texts.prettyJson
    /\ minifiedJson' = out.ui.texts.minifiedJson
    /\ prettyTokenCount' = out.ui.texts.prettyTokenCount
    /\ minifiedTokenCount' = out.ui.texts.minifiedTokenCount
    /\ toHost' = toHost \o out.posts
    /\ surfaceTurn' = [msg |-> message, posts |-> out.posts,
                       changed |-> out.ui # currentUi]
    /\ lastData' = IF "type" \in DOMAIN message /\ message.type = "selectionChange"
                   THEN <<IF "data" \in DOMAIN message
                          THEN message.data ELSE Undefined>>
                   ELSE lastData
    /\ outbound' = Sent(out.posts)
    /\ UNCHANGED <<hostVars, mounted, includeChildren, activeTab, copied,
                   clipboard, hostTurn, hostFailed, lastToggle>>

\* The Surface receives the next message of the Host.
SurfaceReceive ==
    /\ UNCHANGED <<extractVars, callVars>>
    /\ mounted
    /\ toSurface # <<>>
    /\ toSurface' = Tail(toSurface)
    /\ SurfaceHandle(Head(toSurface))
    /\ UNCHANGED inputs

\* The Surface receives an event that is not of the protocol.
SurfaceReceiveForeign ==
    /\ UNCHANGED <<extractVars, callVars>>
    /\ mounted
    /\ Input
    /\ \E message \in ForeignToSurface : SurfaceHandle(message)
    /\ UNCHANGED toSurface

\* The user clicks the "Include children" checkbox.
ToggleIncludeChildren ==
    /\ UNCHANGED <<extractVars, callVars>>
    /\ mounted
    /\ Input
    /\ LET posts == toggleEffect(selectionData, ~includeChildren) IN
       /\ Len(toHost) + Len(posts) <= MaxQueue
       /\ toHost' = toHost \o posts
       /\ outbound' = Sent(posts)
    /\ includeChildren' = ~includeChildren
    /\ UNCHANGED <<hostVars, toSurface, mounted, selectionData, activeTab,
                   copied, prettyJson, minifiedJson, prettyTokenCount,
                   minifiedTokenCount, clipboard, historyVars, lastData>>

\* The user clicks a tab.
SelectTab(tab) ==
    /\ UNCHANGED <<extractVars, callVars>>
    /\ mounted
    /\ Input
    /\ tab # activeTab
    /\ activeTab' = tab
    /\ UNCHANGED <<hostVars, toSurface, toHost, mounted, selectionData,
                   includeChildren, copied, prettyJson, minifiedJson,
                   prettyTokenCount, minifiedTokenCount, clipboard, historyVars,
                   surfaceHistory>>

\* Mutant: the copy button copies the text of the other tab.
CopyOtherTab ==
    /\ UNCHANGED <<extractVars, callVars>>
    /\ mounted
    /\ Input
    /\ Len(toHost) < MaxQueue
    /\ \E succeeded \in BOOLEAN :
          clipboard' = IF succeeded
                       THEN (IF activeTab = "pretty" THEN minifiedJson
                             ELSE prettyJson)
                       ELSE clipboard
    /\ copied' = TRUE
    /\ toHost' = Append(toHost, NotifyMsg(CopiedNotice))
    /\ outbound' = Sent(<<NotifyMsg(CopiedNotice)>>)
    /\ UNCHANGED <<hostVars, toSurface, mounted, selectionData, includeChildren,
                   activeTab, prettyJson, minifiedJson, prettyTokenCount,
                   minifiedTokenCount, historyVars, lastData>>

\* The user clicks the copy button: copyToClipboard(text of the active tab).
\* document.execCommand('copy') may fail, leaving the clipboard as it was.
Copy ==
    /\ UNCHANGED <<extractVars, callVars>>
    /\ mounted
    /\ Input
    /\ Len(toHost) < MaxQueue
    /\ \E succeeded \in BOOLEAN :
          clipboard' = IF succeeded
                       THEN (IF activeTab = "pretty" THEN prettyJson
                             ELSE minifiedJson)
                       ELSE clipboard
    /\ copied' = TRUE
    /\ toHost' = Append(toHost, NotifyMsg(CopiedNotice))
    /\ outbound' = Sent(<<NotifyMsg(CopiedNotice)>>)
    /\ UNCHANGED <<hostVars, toSurface, mounted, selectionData, includeChildren,
                   activeTab, prettyJson, minifiedJson, prettyTokenCount,
                   minifiedTokenCount, historyVars, lastData>>

\* The 2 s timer of copyToClipboard fires.
CopiedReset ==
    /\ UNCHANGED <<extractVars, callVars>>
    /\ copied
    /\ copied' = FALSE
    /\ UNCHANGED <<hostVars, toSurface, toHost, mounted, selectionData,
                   includeChildren, activeTab, prettyJson, minifiedJson,
                   prettyTokenCount, minifiedTokenCount, clipboard, historyVars,
                   surfaceHistory, inputs>>

(***************************************************************************)
(* The system.                                                             *)
(***************************************************************************)
Init ==
    /\ hostStarted = FALSE
    /\ selection \in Selections
    /\ notices = <<>>
    /\ toSurface = <<>>
    /\ toHost = <<>>
    /\ mounted = FALSE
    /\ selectionData = Null
    /\ includeChildren = TRUE
    /\ activeTab = "minified"
    /\ copied = FALSE
    /\ prettyJson = <<>>
    /\ minifiedJson = <<>>
    /\ prettyTokenCount = 0
    /\ minifiedTokenCount = 0
    /\ clipboard = <<>>
    /\ hostTurn = Turn("none", NoMsg, <<>>, <<>>)
    /\ hostFailed = FALSE
    /\ lastToggle = <<>>
    /\ surfaceTurn = [msg |-> NoMsg, posts |-> <<>>, changed |-> FALSE]
    /\ lastData = <<>>
    /\ outbound = [first |-> "none", inits |-> 0]
    /\ inputs = 0
    /\ document = Scene
    /\ target = 1
    /\ expand = FALSE
    /\ extraction = NoExtraction
    /\ previous = NoExtraction
    /\ edits = 0
    /\ argument = NoArgument
    /\ returned = NoResult

Next ==
    \/ HostStartup
    \/ \E sel \in Selections : HostSelectionChange(sel)
    \/ HostReceive
    \/ HostReceiveForeign
    \/ NoticeExpires
    \/ SurfaceMount
    \/ SurfaceMiss
    \/ SurfaceReceive
    \/ SurfaceReceiveForeign
    \/ ToggleIncludeChildren
    \/ \E tab \in Tabs : SelectTab(tab)
    \/ Copy
    \/ CopiedReset

Spec == Init /\ [][Next]_vars

\* The event loops of the Host and of the Surface run every task that is
\* ready: the main script, the mount of the component, the delivery of a
\* posted message and the timers.  The user and the senders of foreign
\* messages owe nothing.
Fairness ==
    /\ WF_vars(HostStartup)
    /\ WF_vars(SurfaceMount)
    /\ WF_vars(SurfaceMiss)
    /\ WF_vars(HostReceive)
    /\ WF_vars(SurfaceReceive)
    /\ WF_vars(NoticeExpires)
    /\ WF_vars(CopiedReset)

LiveSpec == Init /\ [][Next]_vars /\ Fairness

(***************************************************************************)
(* The extraction engine alone: extractNodeData(target, expand) is called  *)
(* again and again while the user edits the document.  The plugin around   *)
(* it stays as it is before its start.                                     *)
(***************************************************************************)
\* The call of extractNodeData on the document as it is now.
Extracted ==
    [id |-> target, expandContent |-> expand, source |-> document,
     data |-> extractNodeDataIn(document, target, expand)]

Extract ==
    /\ ~extractionThrowsIn(document, target, expand)
    /\ extraction' = Extracted
    /\ previous' = extraction
    /\ UNCHANGED <<pluginVars, callVars, document, target, expand, edits>>

\* The user sets a property of a node.
EditProperty(edit) ==
    /\ edits < MaxEdits
    /\ edits' = edits + 1
    /\ document' = [document EXCEPT ![edit.id] = SetProperty(@, edit.field, edit.value)]
    /\ document' # document
    /\ UNCHANGED <<pluginVars, callVars, target, expand, extraction, previous>>

\* The user deletes the last child of a container.
DeleteLastChild(id) ==
    /\ edits < MaxEdits
    /\ edits' = edits + 1
    /\ "children" \in DOMAIN document[id]
    /\ document[id].children # <<>>
    /\ document' = [document EXCEPT ![id] =
                       SetProperty(@, "children",
                                   SubSeq(@.children, 1, Len(@.children) - 1))]
    /\ UNCHANGED <<pluginVars, callVars, target, expand, extraction, previous>>

ExtractInit ==
    /\ hostStarted = FALSE
    /\ selection = <<>>
    /\ notices = <<>>
    /\ toSurface = <<>>
    /\ toHost = <<>>
    /\ mounted = FALSE
    /\ selectionData = Null
    /\ includeChildren = TRUE
    /\ activeTab = "minified"
    /\ copied = FALSE
    /\ prettyJson = <<>>
    /\ minifiedJson = <<>>
    /\ prettyTokenCount = 0
    /\ minifiedTokenCount = 0
    /\ clipboard = <<>>
    /\ hostTurn = Turn("none", NoMsg, <<>>, <<>>)
    /\ hostFailed = FALSE
    /\ lastToggle = <<>>
    /\ surfaceTurn = [msg |-> NoMsg, posts |-> <<>>, changed |-> FALSE]
    /\ lastData = <<>>
    /\ outbound = [first |-> "none", inits |-> 0]
    /\ inputs = 0
    /\ document = Scene
    /\ target \in NodeIds
    /\ expand \in BOOLEAN
    /\ extraction = NoExtraction
    /\ previous = NoExtraction
    /\ edits = 0
    /\ argument = NoArgument
    /\ returned = NoResult

ExtractNext ==
    \/ Extract
    \/ \E edit \in Edits : EditProperty(edit)
    \/ \E id \in NodeIds : DeleteLastChild(id)

ExtractSpec == ExtractInit /\ [][ExtractNext]_vars

(***************************************************************************)
(* The pure functions alone: extractColor is called on a color and         *)
(* calculateTokens on a text.  Channels and alpha are in tenths.           *)
(***************************************************************************)
Channels == 0..10

Alphas == {0, 5, 10}

\* RGB and RGBA values.
Colors ==
    [r : Channels, g : Channels, b : Channels]
        \cup [r : Channels, g : Channels, b : Channels, a : Alphas]

\* A letter, a separator of words, a structural character, a digit and
\* the decimal point.
Alphabet == {"a", " ", "{", "1", "."}

ShortTexts == UNION {[1..n -> Alphabet] : n \in 0..MaxLen}

\* Long texts: n commas, alone or after a digit.
CommaRuns ==
    {prefix \o [i \in 1..n |-> ","] :
        prefix \in {<<>>, <<"1">>}, n \in 1..MaxRun}

\* The text {"a":1}.
ExampleText == <<"{", "\"", "a", "\"", ":", "1", "}">>

TextInputs == ShortTexts \cup CommaRuns \cup {ExampleText}

\* The plugin and the extraction engine before their start.
PluginIdle ==
    /\ hostStarted = FALSE
    /\ selection = <<>>
    /\ notices = <<>>
    /\ toSurface = <<>>
    /\ toHost = <<>>
    /\ mounted = FALSE
    /\ selectionData = Null
    /\ includeChildren = TRUE
    /\ activeTab = "minified"
    /\ copied = FALSE
    /\ prettyJson = <<>>
    /\ minifiedJson = <<>>
    /\ prettyTokenCount = 0
    /\ minifiedTokenCount = 0
    /\ clipboard = <<>>
    /\ hostTurn = Turn("none", NoMsg, <<>>, <<>>)
    /\ hostFailed = FALSE
    /\ lastToggle = <<>>
    /\ surfaceTurn = [msg |-> NoMsg, posts |-> <<>>, changed |-> FALSE]
    /\ lastData = <<>>
    /\ outbound = [first |-> "none", inits |-> 0]
    /\ inputs = 0

EngineIdle ==
    /\ document = Scene
    /\ target = 1
    /\ expand = FALSE
    /\ extraction = NoExtraction
    /\ previous = NoExtraction
    /\ edits = 0

\* extractColor(argument).
EncodeColor ==
    /\ argument.kind = "color"
    /\ returned' = [kind |-> "color", of |-> argument.value,
                    value |-> extractColor(argument.value)]
    /\ UNCHANGED <<pluginVars, extractVars, argument>>

\* calculateTokens(argument).
EstimateTokens ==
    /\ argument.kind = "text"
    /\ returned' = [kind |-> "tokens", of |-> argument.value,
                    value |-> calculateTokens(argument.value)]
    /\ UNCHANGED <<pluginVars, extractVars, argument>>

CallInit ==
    /\ PluginIdle
    /\ EngineIdle
    /\ \/ \E color \in Colors : argument = [kind |-> "color", value |-> color]
       \/ \E text \in TextInputs : argument = [kind |-> "text", value |-> text]
    /\ returned = NoResult

CallNext ==
    \/ EncodeColor
    \/ EstimateTokens

CallSpec == CallInit /\ [][CallNext]_vars

(***************************************************************************)
(* Properties.                                                             *)
(***************************************************************************)
IsContainer(id) == "children" \in DOMAIN Scene[id]

\* data is the record of node id with every descendant inlined.
RECURSIVE ExpandedImage(_, _)
ExpandedImage(data, id) ==
    /\ data.name = Scene[id].name
    /\ data.type = Scene[id].type
    /\ "childrenCount" \notin DOMAIN data
    /\ IF IsContainer(id)
       THEN /\ "children" \in DOMAIN data
            /\ Len(data.children) = Len(Scene[id].children)
            /\ \A i \in 1..Len(data.children) :
                  ExpandedImage(data.children[i], Scene[id].children[i])
       ELSE "children" \notin DOMAIN data

\* data is the record of node id alone, its children summarised by a count.
CollapsedImage(data, id) ==
    /\ data.name = Scene[id].name
    /\ data.type = Scene[id].type
    /\ "children" \notin DOMAIN data
    /\ IF IsContainer(id)
       THEN /\ "childrenCount" \in DOMAIN data
            /\ data.childrenCount = Len(Scene[id].children)
       ELSE "childrenCount" \notin DOMAIN data

\* msg is a selectionChange that carries the images of the nodes of sel.
CarriesExpanded(msg, sel) ==
    /\ msg.type = "selectionChange"
    /\ msg.data.kind = "array"
    /\ Len(msg.data.items) = Len(sel)
    /\ \A i \in 1..Len(sel) : ExpandedImage(msg.data.items[i], sel[i])

CarriesCollapsed(msg, sel) ==
    /\ msg.type = "selectionChange"
    /\ msg.data.kind = "array"
    /\ Len(msg.data.items) = Len(sel)
    /\ \A i \in 1..Len(sel) : CollapsedImage(msg.data.items[i], sel[i])

\* No record of the payload of msg has a children field.
CarriesNoChildren(msg) ==
    /\ msg.type = "selectionChange"
    /\ msg.data.kind = "array" =>
          \A i \in 1..Len(msg.data.items) :
             "children" \notin DOMAIN msg.data.items[i]

HandledByHost(msg) == hostTurn.event = "message" /\ hostTurn.msg = msg

\* C1 (as stated): every toggleExpand{expandContent: false} the Host handles
\* while its selection is non-empty is answered by exactly one
\* selectionChange, in whose payload no node carries a children field.
C1_Original ==
    (HandledByHost(ToggleExpandMsg(FALSE)) /\ hostTurn.sel # <<>>) =>
        /\ Len(hostTurn.posts) = 1
        /\ CarriesNoChildren(hostTurn.posts[1])

\* C1 (amended): every toggleExpand{expandContent: false} the Host handles
\* while its selection is non-empty is answered by exactly one message: a
\* selectionChange whose payload holds one record per selected node, none
\* with a children field, or, when the extraction raises, a single error
\* message and no selectionChange.
C1_ToggleCollapsed ==
    (HandledByHost(ToggleExpandMsg(FALSE)) /\ hostTurn.sel # <<>>) =>
        /\ Len(hostTurn.posts) = 1
        /\ IF selectionThrows(hostTurn.sel, FALSE)
           THEN hostTurn.posts[1] = ErrorMsg
           ELSE /\ CarriesNoChildren(hostTurn.posts[1])
                /\ CarriesCollapsed(hostTurn.posts[1], hostTurn.sel)

C1_Witness ==
    /\ HandledByHost(ToggleExpandMsg(FALSE))
    /\ hostTurn.sel = <<1>>
    /\ hostTurn.posts[1].type = "selectionChange"
    /\ hostTurn.posts[1].data.items[1].childrenCount = 2

\* C2 (as stated): every init the Host handles is answered with the
\* selection current at handling time, every node extracted with expand=true.
C2_Original ==
    (HandledByHost(InitMsg) /\ hostTurn.sel # <<>>) =>
        /\ Len(hostTurn.posts) = 1
        /\ CarriesExpanded(hostTurn.posts[1], hostTurn.sel)

\* C2 (amended): every init the Host handles is answered by exactly one
\* message: a selectionChange with the selection current at handling time,
\* every node extracted with expand=true (null when the selection is empty),
\* or a single error message when that extraction raises.
C2_InitExpanded ==
    HandledByHost(InitMsg) =>
        /\ hostTurn.sel = selection
        /\ Len(hostTurn.posts) = 1
        /\ IF hostTurn.sel = <<>>
           THEN hostTurn.posts[1] = SelectionChangeMsg(Null)
           ELSE IF selectionThrows(hostTurn.sel, TRUE)
           THEN hostTurn.posts[1] = ErrorMsg
           ELSE CarriesExpanded(hostTurn.posts[1], hostTurn.sel)

C2_Witness ==
    /\ HandledByHost(InitMsg)
    /\ hostTurn.sel = <<1>>
    /\ Len(hostTurn.posts[1].data.items[1].children) = 2
    /\ Len(hostTurn.posts[1].data.items[1].children[1].children) = 1

\* C3: a selectionChange pushed on a selection-change event is extracted
\* with expand=false, the one pushed at startup with expand=true, and every
\* selection-change event makes the Host push one message, unasked.
C3_PushFlags ==
    /\ hostTurn.event = "selectionchange" =>
          /\ Len(hostTurn.posts) = 1
          /\ hostTurn.posts[1].type \in {"selectionChange", "error"}
          /\ (hostTurn.posts[1].type = "selectionChange" /\ hostTurn.sel # <<>>)
                => CarriesCollapsed(hostTurn.posts[1], hostTurn.sel)
    /\ hostTurn.event = "startup" =>
          /\ Len(hostTurn.posts) = 1
          /\ (hostTurn.posts[1].type = "selectionChange" /\ hostTurn.sel # <<>>)
                => CarriesExpanded(hostTurn.posts[1], hostTurn.sel)

C3_Witness ==
    /\ hostTurn.event = "selectionchange"
    /\ hostTurn.sel = <<1>>
    /\ hostTurn.posts[1].type = "selectionChange"
    /\ hostTurn.posts[1].data.items[1].childrenCount = 2
    /\ toHost = <<>>

\* C4 (as stated): the selectionChange pushed on a selection-change event is
\* extracted with the expandContent of the toggleExpand the Host handled last.
C4_Original ==
    (/\ hostTurn.event = "selectionchange"
     /\ lastToggle # <<>>
     /\ hostTurn.posts[1].type = "selectionChange"
     /\ hostTurn.sel # <<>>) =>
        IF lastToggle[1]
        THEN CarriesExpanded(hostTurn.posts[1], hostTurn.sel)
        ELSE CarriesCollapsed(hostTurn.posts[1], hostTurn.sel)

\* C4 (amended): the selectionChange pushed on a selection-change event is
\* extracted with expand=false whatever the expandContent of the
\* toggleExpand the Host handled last; the Host keeps no expand preference.
C4_IgnoresLastToggle ==
    \A expandContent \in BOOLEAN :
        (/\ hostTurn.event = "selectionchange"
         /\ lastToggle = <<expandContent>>
         /\ hostTurn.posts[1].type = "selectionChange"
         /\ hostTurn.sel # <<>>) =>
            CarriesCollapsed(hostTurn.posts[1], hostTurn.sel)

C4_Witness ==
    /\ hostTurn.event = "selectionchange"
    /\ lastToggle = <<TRUE>>
    /\ hostTurn.sel = <<1>>
    /\ hostTurn.posts[1].type = "selectionChange"
    /\ "childrenCount" \in DOMAIN hostTurn.posts[1].data.items[1]

\* The texts and counts the Surface shows.
shown == <<prettyJson, minifiedJson, prettyTokenCount, minifiedTokenCount>>

\* What the Surface shows once mounted, before any message has arrived.
AwaitingShown == <<PlaceholderText(TRUE), PlaceholderText(FALSE), 0, 0>>

HandledBySurface(type) ==
    "type" \in DOMAIN surfaceTurn.msg /\ surfaceTurn.msg.type = type

\* C5: after every selectionChange the Surface has handled, what it displays
\* is that message's data alone: the selection data are the message's data,
\* the texts are its two serialisations and the counts their estimates; null
\* data give the empty-selection display with both token counts 0.
C5_ContentReplaced ==
    (HandledBySurface("selectionChange") /\ "data" \in DOMAIN surfaceTurn.msg) =>
        LET data == surfaceTurn.msg.data IN
        /\ selectionData = data
        /\ data.kind = "array" =>
              /\ prettyJson = Stringify(data.items, TRUE)
              /\ minifiedJson = Stringify(data.items, FALSE)
              /\ prettyTokenCount = calculateTokens(prettyJson)
              /\ minifiedTokenCount = calculateTokens(minifiedJson)
        /\ data.kind = "null" =>
              /\ shown = AwaitingShown
              /\ prettyTokenCount = 0 /\ minifiedTokenCount = 0

\* The clipboard still holds the text of an earlier, different content.
C5_Witness ==
    /\ HandledBySurface("selectionChange")
    /\ "data" \in DOMAIN surfaceTurn.msg
    /\ surfaceTurn.msg.data.kind = "array"
    /\ selectionData = surfaceTurn.msg.data
    /\ clipboard # <<>>
    /\ clipboard \notin {prettyJson, minifiedJson, PlaceholderText(TRUE),
                         PlaceholderText(FALSE)}

\* C6 (as stated): once the Surface has handled a selectionChange, null data
\* included, it is not in the state it had before the first selectionChange.
C6_Original ==
    (mounted /\ HandledBySurface("selectionChange")) =>
        <<selectionData, shown>> # <<Null, AwaitingShown>>

\* C6 (amended): a selectionChange with non-null data makes the Surface show
\* that data, and a selectionChange with null data puts the Surface back in
\* exactly the state it had before the first selectionChange (no selection
\* data, the placeholder texts, both token counts 0).
C6_NullRestoresAwaiting ==
    /\ (mounted /\ selectionData = Null) => shown = AwaitingShown
    /\ (HandledBySurface("selectionChange") /\ "data" \in DOMAIN surfaceTurn.msg) =>
          IF surfaceTurn.msg.data.kind = "array"
          THEN selectionData # Null /\ shown # AwaitingShown
          ELSE <<selectionData, shown>> = <<Null, AwaitingShown>>

\* Null data arrive after the Surface has displayed a selection.
C6_Witness ==
    /\ surfaceTurn.msg = SelectionChangeMsg(Null)
    /\ surfaceTurn.changed
    /\ <<selectionData, shown>> = <<Null, AwaitingShown>>

\* The messages of the protocol, per receiver.
ProtocolToHost ==
    {InitMsg, ToggleExpandMsg(TRUE), ToggleExpandMsg(FALSE), NotifyMsg(CopiedNotice)}

ProtocolToSurface ==
    {SelectionChangeMsg(Null), ErrorMsg}
    \cup {SelectionChangeMsg(ArrayOf(items)) : items \in HostPayloads}

\* The notices on screen after the Host, showing shownNow, has handled msg.
NoticesAfter(shownNow, msg) == shownNow \o hostOnMessage(msg, selection).notify

\* Handling msg twice leaves the Host's visible state as handling it once.
HostIdempotent(msg) ==
    NoticesAfter(NoticesAfter(notices, msg), msg) = NoticesAfter(notices, msg)

\* Handling msg twice leaves the Surface's state as handling it once.
SurfaceIdempotent(msg) ==
    LET once == surfaceOnMessage(currentUi, msg).ui
    IN  surfaceOnMessage(once, msg).ui = once

\* C7 (as stated): every message of the protocol is idempotent on the
\* visible state of its receiver.
C7_Original ==
    /\ \A msg \in ProtocolToHost :
          (toHost # <<>> /\ Head(toHost) = msg) => HostIdempotent(msg)
    /\ \A msg \in ProtocolToSurface :
          (toSurface # <<>> /\ Head(toSurface) = msg) => SurfaceIdempotent(msg)

\* C7 (amended): init, toggleExpand, selectionChange and error are idempotent
\* on the state of their receiver (each delivery of a request still posts
\* its own response); notify is not: every delivery makes the Host show one
\* more notice.
C7_IdempotentExceptNotify ==
    /\ \A msg \in ProtocolToHost :
          IF msg.type = "notify" THEN ~HostIdempotent(msg)
          ELSE HostIdempotent(msg)
    /\ \A msg \in ProtocolToSurface : mounted => SurfaceIdempotent(msg)

\* The selectionChange just handled is in flight a second time.
C7_Witness ==
    /\ HandledBySurface("selectionChange")
    /\ "data" \in DOMAIN surfaceTurn.msg
    /\ surfaceTurn.msg.data.kind = "array"
    /\ toSurface # <<>>
    /\ Head(toSurface) = surfaceTurn.msg
    /\ selectionData = surfaceTurn.msg.data

\* The expand flag of the Host's last turn, when the turn extracts.
TurnExtracts ==
    \/ hostTurn.event \in {"startup", "selectionchange"}
    \/ hostTurn.event = "message" /\ hostTurn.msg.type \in {"init", "toggleExpand"}

TurnFlag ==
    IF hostTurn.event = "startup" THEN TRUE
    ELSE IF hostTurn.event = "selectionchange" THEN FALSE
    ELSE IF hostTurn.msg.type = "init" THEN TRUE
    ELSE "expandContent" \in DOMAIN hostTurn.msg /\ hostTurn.msg.expandContent

\* C8: when the extraction of a selected node raises, the Host posts exactly
\* one error message with the generic description, no selectionChange and
\* no partial result; and after a failure the Host still answers a request
\* whose extraction succeeds with one selectionChange for the whole selection.
C8_FailureContained ==
    (TurnExtracts /\ hostTurn.sel # <<>>) =>
        IF selectionThrows(hostTurn.sel, TurnFlag)
        THEN hostTurn.posts = <<ErrorMsg>>
        ELSE /\ Len(hostTurn.posts) = 1
             /\ hostTurn.posts[1].type = "selectionChange"
             /\ hostTurn.posts[1].data.kind = "array"
             /\ Len(hostTurn.posts[1].data.items) = Len(hostTurn.sel)

\* After a failure, a request on a selection that extracts is answered.
C8_Witness ==
    /\ hostFailed
    /\ hostTurn.event = "message"
    /\ hostTurn.sel = <<3, 5>>
    /\ Len(hostTurn.posts) = 1
    /\ hostTurn.posts[1].type = "selectionChange"
    /\ Len(hostTurn.posts[1].data.items) = 2

\* C9 (as stated): a message with an unrecognised type or a malformed
\* payload is ignored: the receiver posts nothing and keeps its state.
C9_Claim ==
    /\ (hostTurn.event = "message" /\ hostTurn.msg \in ForeignToHost) =>
          hostTurn.posts = <<>>
    /\ surfaceTurn.msg \in ForeignToSurface =>
          (surfaceTurn.posts = <<>> /\ ~surfaceTurn.changed)

\* The step in which the Surface handles an error message.
SurfaceHandlesError ==
    /\ mounted
    /\ toSurface # <<>>
    /\ Head(toSurface).type = "error"
    /\ toSurface' = Tail(toSurface)

\* C10: handling an error message leaves the selection data, the pretty and
\* minified texts and both token counts exactly as they were.
C10_ErrorKeepsContent ==
    [][SurfaceHandlesError => UNCHANGED <<display, shown>>]_vars

\* An error message has been handled while a selection is displayed.
C10_Witness ==
    /\ HandledBySurface("error")
    /\ Truthy(selectionData)
    /\ prettyTokenCount > 0

\* C11 (as stated): on handling an error message the Surface surfaces a
\* failure notice: its state, or what it has posted to the Host, differs
\* from what it was before.
C11_Claim ==
    [][SurfaceHandlesError => (<<uiVars, toHost>>' # <<uiVars, toHost>>)]_vars

\* The payload of the push of the Host's last turn.
PushedItems == hostTurn.posts[1].data.items

\* The Host's last turn pushed the extraction of a non-empty selection.
PushedSelection ==
    /\ TurnExtracts
    /\ hostTurn.sel # <<>>
    /\ ~Failed(hostTurn.posts)

\* The text of the data the Surface shows, with one item standing for
\* itself and several items for their sequence.
TreeOrSequenceText(items, pretty) ==
    IF Len(items) = 1
    THEN NodeText(items[1], pretty, 0)
    ELSE ArrayText([i \in 1..Len(items) |-> NodeText(items[i], pretty, 1)],
                   pretty, 0)

\* The step in which the user copies and the copy succeeds or fails.
CopyStep == copied' /\ toHost' = Append(toHost, NotifyMsg(CopiedNotice))

\* C15: the payload pushed for a selection of k > 0 nodes holds the k trees
\* of the selected nodes in selection order, all extracted with the flag of
\* the turn; the Surface displays the tree itself for one item and the
\* sequence for several, and a copy puts the displayed text of the active
\* tab on the clipboard.
C15_PayloadAndDisplay ==
    /\ [](PushedSelection =>
            /\ Len(hostTurn.posts) = 1
            /\ hostTurn.posts[1].type = "selectionChange"
            /\ hostTurn.posts[1].data.kind = "array"
            /\ Len(PushedItems) = Len(hostTurn.sel)
            /\ \A i \in 1..Len(hostTurn.sel) :
                  PushedItems[i] = extractNodeData(hostTurn.sel[i], TurnFlag))
    /\ []((mounted /\ Truthy(selectionData)) =>
            /\ prettyJson = TreeOrSequenceText(selectionData.items, TRUE)
            /\ minifiedJson = TreeOrSequenceText(selectionData.items, FALSE)
            /\ prettyJson[1] = (IF Len(selectionData.items) = 1 THEN "{" ELSE "["))
    /\ [][CopyStep =>
            clipboard' \in {clipboard,
                            IF activeTab = "pretty" THEN prettyJson
                            ELSE minifiedJson}]_vars

\* The Surface shows a selection of two nodes as a sequence and the user
\* has copied it.
C15_Witness ==
    /\ Truthy(selectionData)
    /\ Len(selectionData.items) = 2
    /\ selectionData.items[1].name = "T"
    /\ selectionData.items[2].name = "E"
    /\ minifiedJson[1] = "["
    /\ copied
    /\ clipboard = minifiedJson

\* C16: a push the Host builds while the selection is empty is one
\* selectionChange whose data is null.
C16_EmptySelectionNull ==
    (TurnExtracts /\ hostTurn.sel = <<>>) =>
        hostTurn.posts = <<SelectionChangeMsg(Null)>>

\* A toggleExpand has been answered while the selection is empty.
C16_Witness ==
    /\ HandledByHost(ToggleExpandMsg(TRUE))
    /\ hostTurn.sel = <<>>
    /\ hostTurn.posts = <<SelectionChangeMsg(Null)>>

(***************************************************************************)
(* Properties of the extraction engine, under ExtractSpec.                 *)
(***************************************************************************)
\* extractNodeData has been called.
Made == extraction # NoExtraction

HasChildren(doc, id) == "children" \in DOMAIN doc[id]

\* The records of the tree data extracted from node id of doc, each with
\* the id of the node it was made from.
RECURSIVE Records(_, _, _)
Records(data, doc, id) ==
    {<<data, id>>} \cup
    (IF "children" \in DOMAIN data /\ HasChildren(doc, id)
     THEN UNION {Records(data.children[i], doc, doc[id].children[i]) :
                    i \in (1..Len(data.children)) \cap (1..Len(doc[id].children))}
     ELSE {})

ExtractedRecords == Records(extraction.data, extraction.source, extraction.id)

\* The nodes of the subtree of node id.
RECURSIVE Subtree(_, _)
Subtree(doc, id) ==
    {id} \cup
    (IF HasChildren(doc, id)
     THEN UNION {Subtree(doc, doc[id].children[i]) :
                    i \in 1..Len(doc[id].children)}
     ELSE {})

\* The number of node records in the tree data.
RECURSIVE RecordCount(_)
RecordCount(data) ==
    LET RECURSIVE upTo(_)
        upTo(n) == IF n = 0 THEN 0
                   ELSE upTo(n - 1) + RecordCount(data.children[n])
    IN  1 + (IF "children" \in DOMAIN data THEN upTo(Len(data.children)) ELSE 0)

\* C12: in every record of an extracted tree, a node with the children
\* capability has children and no childrenCount when expanding,
\* childrenCount and no children when not; a node without the capability
\* has neither.
C12_ChildFields ==
    Made =>
        \A p \in ExtractedRecords :
            LET has(f) == f \in DOMAIN p[1] IN
            IF HasChildren(extraction.source, p[2])
            THEN IF extraction.expandContent
                 THEN has("children") /\ ~has("childrenCount")
                 ELSE has("childrenCount") /\ ~has("children")
            ELSE ~has("children") /\ ~has("childrenCount")

\* An expanded tree with a container inside a container and a leaf.
C12_Witness ==
    /\ Made
    /\ extraction.id = 1
    /\ extraction.expandContent
    /\ Cardinality(ExtractedRecords) >= 3
    /\ \E p \in ExtractedRecords :
          p[2] # 1 /\ HasChildren(extraction.source, p[2])
    /\ \E p \in ExtractedRecords : ~HasChildren(extraction.source, p[2])

\* data has the shape of the subtree of node id: the same children, in the
\* same order, at every depth, none summarised by a count.
RECURSIVE Mirrors(_, _, _)
Mirrors(data, doc, id) ==
    /\ data.name = doc[id].name
    /\ data.type = doc[id].type
    /\ "childrenCount" \notin DOMAIN data
    /\ IF HasChildren(doc, id)
       THEN /\ "children" \in DOMAIN data
            /\ Len(data.children) = Len(doc[id].children)
            /\ \A i \in 1..Len(data.children) :
                  Mirrors(data.children[i], doc, doc[id].children[i])
       ELSE "children" \notin DOMAIN data

\* C13: extractNodeData(node, true) mirrors the subtree of node: every
\* children list has the length and order of the node's children, at every
\* depth, and the tree has one record per node of the subtree.
C13_SameShape ==
    (Made /\ extraction.expandContent) =>
        /\ Mirrors(extraction.data, extraction.source, extraction.id)
        /\ RecordCount(extraction.data) =
              Cardinality(Subtree(extraction.source, extraction.id))

\* A container with two children, one of them a container with one child.
C13_Witness ==
    /\ Made
    /\ extraction.expandContent
    /\ Len(extraction.source[extraction.id].children) = 2
    /\ Len(extraction.data.children) = 2
    /\ extraction.data.children[1].name = "B"
    /\ Len(extraction.data.children[1].children) = 1
    /\ extraction.data.children[2].name = "T"
    /\ RecordCount(extraction.data) = 4

\* The fields a node record can have.
NodeFields == {"name", "type"} \cup PlainFields \cup DOMAIN TypedFields
              \cup {"children", "childrenCount"}

\* C14: extractNodeData(node, false) is one record: it has no children
\* field, no field but the node's own properties and the count, and for a
\* node with the children capability childrenCount is the number of the
\* node's immediate children.
C14_SingleRecord ==
    (Made /\ ~extraction.expandContent) =>
        /\ "children" \notin DOMAIN extraction.data
        /\ DOMAIN extraction.data \subseteq NodeFields
        /\ RecordCount(extraction.data) = 1
        /\ HasChildren(extraction.source, extraction.id) =>
              /\ "childrenCount" \in DOMAIN extraction.data
              /\ extraction.data.childrenCount =
                    Len(extraction.source[extraction.id].children)

\* The count follows the deletion of a child of a container whose subtree
\* has more nodes than it has children.
C14_Witness ==
    /\ Made
    /\ previous # NoExtraction
    /\ ~extraction.expandContent
    /\ extraction.id = 1
    /\ previous.data.childrenCount = 2
    /\ Cardinality(Subtree(previous.source, 1)) = 4
    /\ extraction.data.childrenCount = 1

\* Two calls of extractNodeData have been made (on the same node, with the
\* same flag).
MadeTwice == Made /\ previous # NoExtraction

\* The nodes the call reads: the node, and its subtree when expanding.
NodesRead(call) ==
    IF call.expandContent THEN Subtree(call.source, call.id) ELSE {call.id}

\* The node, and its subtree when expanded, is the same at both calls.
SourceUnchanged ==
    /\ NodesRead(previous) = NodesRead(extraction)
    /\ \A n \in NodesRead(extraction) : previous.source[n] = extraction.source[n]

\* C17 (as stated): two extractions of the same node with the same flag are
\* equal if and only if the node (and, when expanded, its subtree) is
\* unchanged between them.
C17_Original ==
    MadeTwice => (previous.data = extraction.data <=> SourceUnchanged)

\* The value of property f of node, or that it has none.
PropertyOf(node, f) == IF f \in DOMAIN node THEN <<node[f]>> ELSE <<>>

\* C17 (amended): two extractions of the same node with the same flag are
\* equal whenever the node (and, when expanded, its subtree) is unchanged,
\* and differ whenever its name, type, width, height or a layout property
\* has changed; no record has an id or any field beyond the extracted ones.
C17_EqualWhenUnchanged ==
    /\ MadeTwice =>
          /\ SourceUnchanged => previous.data = extraction.data
          /\ (\E f \in {"name", "type"} \cup PlainFields :
                 PropertyOf(previous.source[extraction.id], f)
                    # PropertyOf(extraction.source[extraction.id], f))
                => previous.data # extraction.data
    /\ Made => \A p \in ExtractedRecords :
                  "id" \notin DOMAIN p[1] /\ DOMAIN p[1] \subseteq NodeFields

\* The node has changed between two extractions, in a property that is not
\* extracted, and the extractions are equal.
C17_Witness ==
    /\ MadeTwice
    /\ previous.source[extraction.id] # extraction.source[extraction.id]
    /\ "x" \in DOMAIN extraction.source[extraction.id]
    /\ previous.data = extraction.data

\* The runtime type of property f of node, or that it has none.
ShapeOf(node, f) == IF f \in DOMAIN node THEN node[f].t ELSE "absent"

\* C18: in every extracted record name and type are present; width, height
\* and the layout properties are present exactly when the node has them;
\* strokeWeight exactly when the node's is a number, strokeAlign, strokeCap
\* and strokeJoin exactly when the node's are strings, fills and strokes
\* exactly when the node's are arrays.
C18_OptionalFields ==
    Made =>
        \A p \in ExtractedRecords :
            LET rec == p[1]
                node == extraction.source[p[2]]
                has(f) == f \in DOMAIN rec
            IN  /\ has("name") /\ rec.name = node.name
                /\ has("type") /\ rec.type = node.type
                /\ \A f \in {"width", "height", "layoutMode",
                             "primaryAxisSizingMode", "counterAxisSizingMode",
                             "primaryAxisAlignItems", "counterAxisAlignItems"} :
                      /\ has(f) <=> f \in DOMAIN node
                      /\ has(f) => rec[f] = node[f]
                /\ has("strokeWeight") <=> ShapeOf(node, "strokeWeight") = "number"
                /\ \A f \in {"strokeAlign", "strokeCap", "strokeJoin"} :
                      has(f) <=> ShapeOf(node, f) = "string"
                /\ \A f \in {"fills", "strokes"} :
                      has(f) <=> ShapeOf(node, f) = "array"
                /\ \A f \in {"strokeWeight", "strokeAlign", "strokeCap",
                             "strokeJoin"} :
                      has(f) => rec[f] = node[f].v

\* A node whose strokeCap is mixed and whose strokeWeight is a number.
C18_Witness ==
    /\ Made
    /\ extraction.id = 4
    /\ ShapeOf(extraction.source[4], "strokeCap") = "symbol"
    /\ "strokeCap" \notin DOMAIN extraction.data
    /\ ShapeOf(extraction.source[4], "strokeWeight") = "number"
    /\ extraction.data.strokeWeight = 1
    /\ "width" \notin DOMAIN extraction.data

\* C19: every extracted paint list has the length and order of the node's
\* paint list; each record has its paint's type and its paint's opacity, or
\* opacity 1 when the paint has none.
C19_PaintsPreserved ==
    Made =>
        \A p \in ExtractedRecords :
            \A f \in {"fills", "strokes"} \cap DOMAIN p[1] :
                LET paints == extraction.source[p[2]][f].v
                    result == p[1][f]
                IN  /\ Len(result) = Len(paints)
                    /\ \A i \in 1..Len(paints) :
                          /\ result[i].type = paints[i].type
                          /\ result[i].opacity =
                                (IF "opacity" \in DOMAIN paints[i]
                                 THEN paints[i].opacity ELSE 10)

\* Two strokes, the first without an opacity, the second with one.
C19_Witness ==
    /\ Made
    /\ extraction.id = 2
    /\ "strokes" \in DOMAIN extraction.data
    /\ Len(extraction.data.strokes) = 2
    /\ "opacity" \notin DOMAIN extraction.source[2].strokes.v[1]
    /\ extraction.data.strokes[1].type = "GRADIENT_RADIAL"
    /\ extraction.data.strokes[1].opacity = 10
    /\ extraction.data.strokes[2].opacity = 5

\* C20: an extracted paint record has a color exactly when its type is
\* SOLID; a record of another type has type and opacity alone.
C20_ColorIffSolid ==
    Made =>
        \A p \in ExtractedRecords :
            \A f \in {"fills", "strokes"} \cap DOMAIN p[1] :
                \A i \in 1..Len(p[1][f]) :
                    LET paint == p[1][f][i] IN
                    /\ "color" \in DOMAIN paint <=> paint.type = "SOLID"
                    /\ paint.type # "SOLID" =>
                          DOMAIN paint = {"type", "opacity"}

\* Fills with an image paint and a solid paint.
C20_Witness ==
    /\ Made
    /\ "fills" \in DOMAIN extraction.data
    /\ Len(extraction.data.fills) = 2
    /\ extraction.data.fills[1].type = "IMAGE"
    /\ "color" \notin DOMAIN extraction.data.fills[1]
    /\ extraction.data.fills[2].type = "SOLID"
    /\ extraction.data.fills[2].color.hex = <<"#", "0", "0", "8", "0", "f", "f">>

(***************************************************************************)
(* C21.  For every color whose channels lie in [0,1] the hex text is '#'   *)
(* and then, for r, g and b in this order, exactly two lower-case          *)
(* hexadecimal digits, zero-padded, whose value is round(channel * 255):   *)
(* 7 characters.  The text is a function of r, g and b alone, so it does   *)
(* not depend on alpha.  With the channel k in tenths, v is                *)
(* round(25.5 * k) exactly when 2 * v is 51 * k or 51 * k + 1.             *)
(***************************************************************************)
HexValue(ch) == CHOOSE v \in 0..15 : HexChars[v + 1] = ch

C21_HexEncoding ==
    returned.kind = "color" =>
        LET hex == returned.value.hex
            channel == <<returned.of.r, returned.of.g, returned.of.b>>
        IN  /\ Len(hex) = 7
            /\ hex[1] = "#"
            /\ \A i \in 2..7 : \E v \in 0..15 : hex[i] = HexChars[v + 1]
            /\ \A n \in 1..3 :
                  2 * (16 * HexValue(hex[2 * n]) + HexValue(hex[2 * n + 1]))
                      \in {51 * channel[n], 51 * channel[n] + 1}

C21_Witness ==
    /\ returned.kind = "color"
    /\ returned.of = [r |-> 0, g |-> 5, b |-> 10, a |-> 5]
    /\ returned.value.hex = <<"#", "0", "0", "8", "0", "f", "f">>

(***************************************************************************)
(* C22.  extractColor copies r, g and b unchanged and sets a to the alpha  *)
(* of its input when the input has one and to 1 when it has none;          *)
(* {r:1,g:0,b:0,a:1} gives {r:1,g:0,b:0,a:1,hex:'#ff0000'}.                *)
(***************************************************************************)
C22_ChannelsAndAlpha ==
    returned.kind = "color" =>
        LET color == returned.of
            colorObj == returned.value
        IN  /\ DOMAIN colorObj = {"r", "g", "b", "a", "hex"}
            /\ colorObj.r = color.r
            /\ colorObj.g = color.g
            /\ colorObj.b = color.b
            /\ colorObj.a = IF "a" \in DOMAIN color THEN color.a ELSE 10
            /\ color = [r |-> 10, g |-> 0, b |-> 0, a |-> 10]
                  => colorObj = [r |-> 10, g |-> 0, b |-> 0, a |-> 10,
                                 hex |-> <<"#", "f", "f", "0", "0", "0", "0">>]

C22_Witness ==
    /\ returned.kind = "color"
    /\ returned.of = [r |-> 10, g |-> 0, b |-> 0, a |-> 5]
    /\ returned.value = [r |-> 10, g |-> 0, b |-> 0, a |-> 5,
                         hex |-> <<"#", "f", "f", "0", "0", "0", "0">>]

(***************************************************************************)
(* C23.  calculateTokens returns 0 for the empty string and an integer of  *)
(* at least 1 for every non-empty string, also for one made only of        *)
(* whitespace or only of characters that are neither whitespace,           *)
(* structural characters nor digits.                                       *)
(***************************************************************************)
C23_ZeroOrAtLeastOne ==
    returned.kind = "tokens" =>
        /\ returned.value \in Nat
        /\ returned.of = <<>> => returned.value = 0
        /\ returned.of # <<>> => returned.value >= 1

C23_Witness ==
    /\ returned.kind = "tokens"
    /\ returned.of = <<" ", " ">>
    /\ returned.value = 1

(***************************************************************************)
(* C24.  For every non-empty text the estimate is max(1, round(1.3 *       *)
(* wordCount + 0.3 * specialCharCount + 0.5 * numberTokenCount)) with the  *)
(* sum taken in binary64 arithmetic: wordCount is the number of non-empty  *)
(* whitespace-delimited runs, specialCharCount the number of characters    *)
(* among { } [ ] \" , : and numberTokenCount the number of maximal digit    *)
(* runs, each optionally followed by one '.' and more digits.  The         *)
(* estimate is the exact sum rounded half up, except that where the exact  *)
(* sum lies halfway between two integers it may be the lower one.  On      *)
(* {\"a\":1} the counts are 1, 5 and 1 and the estimate is 3.               *)
(***************************************************************************)
\* The counts, as the claim words them.
RunStarts(text, class) ==
    {i \in 1..Len(text) :
        text[i] \in class /\ (i = 1 \/ text[i - 1] \notin class)}

NumberTokens(text) ==
    LET starts == RunStarts(text, Digit)
        startOf(j) == CHOOSE i \in starts :
                         i <= j /\ \A k \in starts : k <= j => k <= i
        \* the run at i is the fraction of the token before it
        fraction[i \in starts] ==
            /\ i > 2
            /\ text[i - 1] = "."
            /\ text[i - 2] \in Digit
            /\ ~fraction[startOf(i - 2)]
    IN  Cardinality({i \in starts : ~fraction[i]})

NonWhitespace(text) == {text[i] : i \in 1..Len(text)} \ Whitespace

\* Ten times 1.3 * w + 0.3 * s + 0.5 * n, exactly.
TenfoldSum(text) ==
    13 * Cardinality(RunStarts(text, NonWhitespace(text)))
        + 3 * Cardinality({i \in 1..Len(text) : text[i] \in Special})
        + 5 * NumberTokens(text)

AtLeastOne(n) == IF n < 1 THEN 1 ELSE n

\* The claim as it stands: the exact sum, and 4 special characters in the
\* example.
C24_Original ==
    returned.kind = "tokens" /\ returned.of # <<>> =>
        /\ returned.value = AtLeastOne((TenfoldSum(returned.of) + 5) \div 10)
        /\ returned.of = ExampleText =>
              /\ WordCount(returned.of) = 1
              /\ SpecialCount(returned.of) = 4
              /\ NumberCount(returned.of) = 1
              /\ returned.value = 3

C24_Estimate ==
    returned.kind = "tokens" /\ returned.of # <<>> =>
        LET text == returned.of
            halfUp == (TenfoldSum(text) + 5) \div 10
        IN  /\ WordCount(text) = Cardinality(RunStarts(text, NonWhitespace(text)))
            /\ NumberCount(text) = NumberTokens(text)
            /\ \/ returned.value = AtLeastOne(halfUp)
               \/ /\ TenfoldSum(text) % 10 = 5
                  /\ returned.value = AtLeastOne(halfUp - 1)
            /\ text = ExampleText =>
                  /\ WordCount(text) = 1
                  /\ SpecialCount(text) = 5
                  /\ NumberCount(text) = 1
                  /\ returned.value = 3

\* 114 commas: 1.3 + 34.2 is 35.5 exactly and 35.49999999999999 in binary64.
C24_Witness ==
    /\ returned.kind = "tokens"
    /\ Len(returned.of) = MaxRun
    /\ \A i \in 1..MaxRun : returned.of[i] = ","
    /\ TenfoldSum(returned.of) = 355
    /\ returned.value = 35

(***************************************************************************)
(* C25.  A copy puts on the clipboard the text the Surface shows in the    *)
(* active tab, or leaves the clipboard as it was when the copy command     *)
(* fails.  For a non-null selection data that text is the serialization    *)
(* of the displayed tree (of the sequence, for several items), indented    *)
(* in the tab 'pretty' and without whitespace in the tab 'minified'; for   *)
(* null or undefined data it is the serialization of the placeholder       *)
(* object, in the same two forms.  The active tab is always one of these   *)
(* two, and the selection data is that of the last selectionChange         *)
(* received, null before the first.                                        *)
(***************************************************************************)
\* JSON.stringify(null), the serialization of null data.
NullText == <<"n", "u", "l", "l">>

ShownText(tab, data) ==
    IF Truthy(data) THEN TreeOrSequenceText(data.items, tab = "pretty")
    ELSE PlaceholderText(tab = "pretty")

LastReceived == IF lastData = <<>> THEN Null ELSE lastData[1]

\* The claim as it stands: the copied text always serializes the data.
C25_Original ==
    [][CopyStep =>
          clipboard' \in {clipboard,
                          IF Truthy(LastReceived)
                          THEN TreeOrSequenceText(LastReceived.items,
                                                  activeTab = "pretty")
                          ELSE NullText}]_vars

C25_CopiedText ==
    /\ [](activeTab \in {"pretty", "minified"})
    /\ [](selectionData = LastReceived)
    /\ [][CopyStep =>
             clipboard' \in {clipboard, ShownText(activeTab, LastReceived)}]_vars
    /\ [][clipboard' # clipboard => CopyStep]_vars

C25_Witness ==
    /\ copied
    /\ activeTab = "pretty"
    /\ lastData = <<Null>>
    /\ clipboard = PlaceholderText(TRUE)
    /\ clipboard # NullText

(***************************************************************************)
(* C26.  Every copy makes the Surface post exactly one notify and nothing  *)
(* else, whether the copy command succeeds or not; and when the Host       *)
(* handles a notify it shows the message as a notice, posts nothing to     *)
(* the Surface and changes nothing else of its state.                      *)
(***************************************************************************)
HostHandlesNotify ==
    HostReceive /\ toHost # <<>> /\ Head(toHost).type = "notify"

C26_OneNotifyPerCopy ==
    /\ [][Copy \/ (~copied /\ copied') \/ clipboard' # clipboard =>
             toHost' = Append(toHost, NotifyMsg(CopiedNotice))]_vars
    /\ [][HostHandlesNotify =>
             /\ notices' = Append(notices, Head(toHost).message)
             /\ toSurface' = toSurface
             /\ hostTurn'.posts = <<>>
             /\ UNCHANGED <<hostStarted, selection, hostFailed, lastToggle>>
             /\ UNCHANGED <<uiVars, surfaceTurn, surfaceHistory>>]_vars

C26_Witness ==
    /\ hostTurn.event = "message"
    /\ hostTurn.msg = NotifyMsg(CopiedNotice)
    /\ hostTurn.posts = <<>>
    /\ notices = <<CopiedNotice>>
    /\ copied
    /\ clipboard = <<>>
    /\ toSurface = <<>>

(***************************************************************************)
(* C30.  The first message the Surface posts is init, and it posts init    *)
(* exactly once; it posts a toggleExpand only while its selection data is  *)
(* non-null, so none before the first non-null selectionChange and none    *)
(* when the include-children box is clicked while the data is null; and    *)
(* every toggleExpand carries the include-children value of the moment it  *)
(* is posted.                                                              *)
(***************************************************************************)
\* The messages a step appends to the Surface's outbound queue.
PostedToHost ==
    IF Len(toHost') > Len(toHost)
    THEN SubSeq(toHost', Len(toHost) + 1, Len(toHost'))
    ELSE <<>>

C30_InitOnceToggleGuarded ==
    /\ [](/\ outbound.first = (IF mounted THEN "init" ELSE "none")
          /\ outbound.inits = (IF mounted THEN 1 ELSE 0))
    /\ [](Truthy(selectionData) =>
             lastData # <<>> /\ Truthy(lastData[1]))
    /\ [][\A i \in 1..Len(PostedToHost) :
             PostedToHost[i].type = "toggleExpand" =>
                /\ selectionData' \notin {Null, Undefined}
                /\ mounted
                /\ PostedToHost[i].expandContent = includeChildren']_vars
    /\ [][includeChildren' # includeChildren /\ ~Truthy(selectionData) =>
             toHost' = toHost]_vars

C30_Witness ==
    /\ mounted
    /\ outbound = [first |-> "init", inits |-> 1]
    /\ hostTurn.msg = InitMsg
    /\ selectionData = Null
    /\ lastData = <<Null>>
    /\ ~includeChildren
    /\ toHost = <<>>
    /\ lastToggle = <<>>

(***************************************************************************)
(* C27.  With a fixed non-empty selection and no action of the user or of  *)
(* another sender, the exchange between Host and Surface terminates: from  *)
(* some state on there is no message left to deliver.  (A state in which   *)
(* messages are left but the bounded queues let none be delivered counts   *)
(* as terminated.)                                                         *)
(***************************************************************************)
Deliverable == ENABLED (HostReceive \/ SurfaceReceive \/ SurfaceMiss)

C27_Claim ==
    [](inputs = 0 /\ selection # <<>>) => <>[]~Deliverable

(***************************************************************************)
(* C28.  Under in-order delivery and fairness, after the last selection    *)
(* change and the last click on include-children, the Surface eventually   *)
(* displays, and from then on always displays, content extracted with an   *)
(* expand flag equal to its include-children preference.  (It may also     *)
(* display no content, and the bounded queues may block.)                  *)
(***************************************************************************)
\* Messages are left and the bounded queues let none be delivered.
Blocked == (toHost # <<>> \/ toSurface # <<>>) /\ ~Deliverable

PayloadsWith ==
    [expandContent \in BOOLEAN |->
        {selectionMap(sel, expandContent) :
            sel \in {q \in Selections :
                        Len(q) > 0 /\ ~selectionThrows(q, expandContent)}}]

C28_Claim ==
    <>[](\/ Blocked
         \/ ~Truthy(selectionData)
         \/ selectionData.items \in PayloadsWith[includeChildren])

(***************************************************************************)
(* C29.  Whatever the interleaving of selection changes, requests of the   *)
(* Surface and in-order deliveries, every selectionChange payload is the   *)
(* extraction of the selection the Host has when it handles the event, so  *)
(* once the selection stops changing and the messages in flight are        *)
(* delivered, the content the Surface displays is content of the Host's    *)
(* current selection, never that of an earlier one.  (The bounded queues   *)
(* may block.)                                                             *)
(***************************************************************************)
DisplaysCurrent ==
    /\ selection # <<>>
    /\ \E expandContent \in BOOLEAN :
          /\ ~selectionThrows(selection, expandContent)
          /\ selectionData.items = selectionMap(selection, expandContent)

C29_Claim ==
    /\ [](PushedSelection =>
             /\ hostTurn.sel = selection
             /\ PushedItems \in PayloadsWith[TRUE] \cup PayloadsWith[FALSE]
             /\ \E expandContent \in BOOLEAN :
                   PushedItems = selectionMap(selection, expandContent))
    /\ <>[](\/ Blocked
            \/ ~Truthy(selectionData)
            \/ DisplaysCurrent)

====
